---- MODULE Spec2Model ----
(***************************************************************************)
(* The three MCP servers of pywin32-mcp as one state machine:              *)
(*   "excel"   mcp_excel_server_win32.py       (Excel through COM)         *)
(*   "ppt_com" mcp_powerpoint_server_win32.py  (PowerPoint through COM)    *)
(*   "ppt_lib" mcp_powerpoint_server.py        (python-pptx, no COM)       *)
(* Each server is a process of its own; `server` says which one a          *)
(* behaviour is a run of.  A tool call is served atomically (the servers   *)
(* have no concurrency): the tool action computes the editor's outcome and *)
(* the tool's payload into `reply`, and Respond hands the reply over.      *)
(*                                                                         *)
(* Python values are records [t, n, s]: the type tag, a number, a string.  *)
(* A string is a sequence of one-character strings, so lower(), isdigit(), *)
(* int(), endswith() and the path functions are computed, not assumed.     *)
(***************************************************************************)
EXTENDS Integers, Sequences, FiniteSets, TLC

VARIABLES
    server,           \* which of the three server programs runs
    editor,           \* the module-level `editor`: "ok", or "None" (Excel only)
    app,              \* self.app: "None", "live" (valid handle), "stale"
    running,          \* the desktop application process is up
    Workbooks,        \* Excel's Workbooks collection (1-based)
    Presentations,    \* PowerPoint's Presentations collection (1-based)
    ScreenUpdating,   \* Excel Application.ScreenUpdating
    DisplayAlerts,    \* Excel Application.DisplayAlerts
    presentations,    \* PowerPointContext.presentations: resolved path -> presentation
    current_presentation, \* PowerPointContext.current_presentation
    element_ids,      \* PowerPointContext.element_ids, as its set of entries
    disk,             \* the .pptx files on disk: absolute path -> presentation
    uuids,            \* the number of element ids generated so far
    reply             \* the outcome of the tool call being answered

comVars == <<editor, app, running, Workbooks, Presentations, ScreenUpdating, DisplayAlerts>>
libVars == <<presentations, current_presentation, element_ids, disk, uuids>>
vars == <<server, editor, app, running, Workbooks, Presentations,
          ScreenUpdating, DisplayAlerts, presentations, current_presentation,
          element_ids, disk, uuids, reply>>

----------------------------------------------------------------------------
(* Bounds of the model *)
MaxWorkbooks == 2
MaxSheets == 2
MaxPresentations == 2
MaxSlides == 2
MaxShapes == 2
MaxElements == 1

----------------------------------------------------------------------------
(* Python values *)
None == [t |-> "None", n |-> 0, s |-> <<>>]
PyInt(k) == [t |-> "int", n |-> k, s |-> <<>>]
PyFloat(k) == [t |-> "float", n |-> k, s |-> <<>>]
PyStr(x) == [t |-> "str", n |-> 0, s |-> x]
PyTime(k) == [t |-> "time", n |-> k, s |-> <<>>]
PyDecimal(k) == [t |-> "Decimal", n |-> k, s |-> <<>>]

\* Python's ==: numbers compare by value across int and float
PyEq(a, b) ==
    IF a.t \in {"int", "float", "Decimal"} /\ b.t \in {"int", "float", "Decimal"}
    THEN a.n = b.n
    ELSE a = b

\* Python's truthiness of a value
Truthy(v) ==
    CASE v.t = "None" -> FALSE
      [] v.t \in {"int", "float", "Decimal"} -> v.n # 0
      [] v.t = "str" -> v.s # <<>>
      [] OTHER -> TRUE

(* str methods *)
LowerChar(c) ==
    CASE c = "A" -> "a" [] c = "B" -> "b" [] c = "S" -> "s" [] c = "X" -> "x"
      [] c = "L" -> "l" [] c = "M" -> "m" [] c = "P" -> "p" [] c = "T" -> "t"
      [] OTHER -> c
lower(s) == [i \in DOMAIN s |-> LowerChar(s[i])]

Digits == <<"0", "1", "2", "3", "4", "5", "6", "7", "8", "9">>
IsDigitChar(c) == \E d \in DOMAIN Digits : Digits[d] = c
DigitValue(c) == (CHOOSE d \in DOMAIN Digits : Digits[d] = c) - 1
isdigit(s) == Len(s) > 0 /\ \A i \in DOMAIN s : IsDigitChar(s[i])

RECURSIVE int(_)
int(s) == IF Len(s) = 0 THEN 0
          ELSE 10 * int(SubSeq(s, 1, Len(s) - 1)) + DigitValue(s[Len(s)])

endswith(s, suffix) ==
    /\ Len(suffix) <= Len(s)
    /\ SubSeq(s, Len(s) - Len(suffix) + 1, Len(s)) = suffix

RECURSIVE strip(_)
strip(s) ==
    IF Len(s) = 0 THEN s
    ELSE IF s[1] = " " THEN strip(Tail(s))
    ELSE IF s[Len(s)] = " " THEN strip(SubSeq(s, 1, Len(s) - 1))
    ELSE s

(* os.path *)
Sep == "/"
IsAbs(p) == Len(p) > 0 /\ p[1] = Sep
Cwd == <<"/", "w">>
abspath(p) == IF IsAbs(p) THEN p ELSE Cwd \o <<Sep>> \o p
LastSep(p) == IF \E i \in DOMAIN p : p[i] = Sep
              THEN CHOOSE i \in DOMAIN p : p[i] = Sep /\ \A j \in DOMAIN p : p[j] = Sep => j <= i
              ELSE 0
dirname(p) == IF LastSep(p) <= 1 THEN SubSeq(p, 1, LastSep(p)) ELSE SubSeq(p, 1, LastSep(p) - 1)
basename(p) == SubSeq(p, LastSep(p) + 1, Len(p))

----------------------------------------------------------------------------
(* Exceptions and outcomes.  An editor method yields an outcome: the        *)
(* exception it raised (raised = "none": it returned), its return value and *)
(* the COM state it leaves.                                                 *)
NoExc == [raised |-> "none", msg |-> ""]
Exc(type, msg) == [raised |-> type, msg |-> msg]
NoReply == [tool |-> "idle"]

(* The cells of a worksheet the model tracks, in A1 notation, with the row  *)
(* and column Excel gives each.                                             *)
Addrs == {"A1", "A2"}
\* analyze_label_value_patterns looks HeaderScanRows - 1 rows below a text
\* cell; column A is addressed two rows further than a first-row header sees
HeaderScanRows == 20
GridRows == HeaderScanRows + 2
CellAt(r, c) == IF c = 1 /\ r = 1 THEN "A1" ELSE IF c = 1 /\ r = 2 THEN "A2"
                ELSE IF c = 1 /\ r \in 3..GridRows THEN "A" \o ToString(r) ELSE "off"
RowOf(a) == IF a = "A1" THEN 1 ELSE IF a = "A2" THEN 2
            ELSE CHOOSE r \in 1..GridRows : CellAt(r, 1) = a
ColOf(a) == 1
\* ws.Range(address): the rows of cells of a range, <<>> for an invalid address
RangeRows(address) ==
    CASE address = "A1" -> << <<"A1">> >>
      [] address = "A2" -> << <<"A2">> >>
      [] address = "A1:A2" -> << <<"A1">>, <<"A2">> >>
      [] OTHER -> <<>>

EmptyCells == [a \in Addrs |-> None]
Sheet(name) == [Name |-> name, Cells |-> EmptyCells]
FullName(doc) == IF doc.Path = <<>> THEN doc.Name ELSE doc.Path \o <<Sep>> \o doc.Name

----------------------------------------------------------------------------
(* mcp_excel_server_win32.py: class ExcelEditorWin32 *)

xlOpenXMLWorkbook == 51
xlOpenXMLWorkbookMacroEnabled == 52
xlExcel12 == 50
xlExcel8 == 56
DateSerialLow == 1
DateSerialHigh == 300000

\* GetActiveObject attaches to a running Excel; otherwise Dispatch launches one
\* (canLaunch: whether the launch succeeds); the handle is None when both fail.
_connect_or_launch_excel(run, canLaunch) ==
    IF run THEN [app |-> "live", running |-> TRUE, launched |-> FALSE]
    ELSE IF canLaunch THEN [app |-> "live", running |-> TRUE, launched |-> TRUE]
    ELSE [app |-> "None", running |-> FALSE, launched |-> FALSE]

\* _ensure_connection without the test of line 77: it returns after the
\* reconnection whatever that gave
_ensure_connection_unchecked(a, run, canLaunch) ==
    LET c1 == IF a = "None" THEN _connect_or_launch_excel(run, canLaunch)
              ELSE [app |-> a, running |-> run, launched |-> FALSE]
        n1 == IF a = "None" THEN 1 ELSE 0
    IN  IF c1.app = "None"
        THEN [exc |-> Exc("ConnectionError", "Could not connect to or launch Excel."),
              app |-> "None", running |-> c1.running, attempts |-> n1]
        ELSE IF c1.app = "stale"
        THEN LET c2 == _connect_or_launch_excel(c1.running, canLaunch)
             IN  [exc |-> NoExc, app |-> c2.app, running |-> c2.running,
                  attempts |-> n1 + 1]
        ELSE [exc |-> NoExc, app |-> c1.app, running |-> c1.running, attempts |-> n1]

\* self.app.Version raises exactly when the handle is stale
_ensure_connection(a, run, canLaunch) ==
    LET c1 == IF a = "None" THEN _connect_or_launch_excel(run, canLaunch)
              ELSE [app |-> a, running |-> run, launched |-> FALSE]
        n1 == IF a = "None" THEN 1 ELSE 0
    IN  IF c1.app = "None"
        THEN [exc |-> Exc("ConnectionError", "Could not connect to or launch Excel."),
              app |-> "None", running |-> c1.running, attempts |-> n1]
        ELSE IF c1.app = "stale"
        THEN LET c2 == _connect_or_launch_excel(c1.running, canLaunch)
             IN  IF c2.app = "None"
                 THEN [exc |-> Exc("ConnectionError", "Could not reconnect to Excel."),
                       app |-> "None", running |-> c2.running, attempts |-> n1 + 1]
                 ELSE [exc |-> NoExc, app |-> c2.app, running |-> c2.running,
                       attempts |-> n1 + 1]
        ELSE [exc |-> NoExc, app |-> c1.app, running |-> c1.running, attempts |-> n1]

\* The first position i whose workbook matches a name or full path, 0 if none
FirstWorkbookNamed(wbs, name) ==
    LET hit(i) == \/ lower(wbs[i].Name) = lower(name)
                  \/ (wbs[i].Path # <<>> /\ lower(FullName(wbs[i])) = lower(name))
    IN  IF \E i \in DOMAIN wbs : hit(i)
        THEN CHOOSE i \in DOMAIN wbs : hit(i) /\ \A j \in DOMAIN wbs : hit(j) => i <= j
        ELSE 0

\* get_workbook counting positions from 0
get_workbook_from_zero(wbs, identifier) ==
    LET idx == IF identifier.t = "int" THEN identifier.n
               ELSE IF identifier.t = "str" /\ isdigit(identifier.s) THEN int(identifier.s)
               ELSE -1
    IN  IF identifier.t = "str" /\ ~isdigit(identifier.s)
        THEN [ret |-> FirstWorkbookNamed(wbs, identifier.s), touched |-> DOMAIN wbs]
        ELSE IF 0 <= idx /\ idx < Len(wbs)
        THEN [ret |-> idx + 1, touched |-> {idx + 1}]
        ELSE [ret |-> 0, touched |-> {}]

\* get_workbook on a live connection.  ret: the position of the workbook
\* returned, 0 for None.  touched: the positions read through Workbooks(i).
get_workbook(wbs, identifier) ==
    IF identifier.t = "int"
    THEN IF 1 <= identifier.n /\ identifier.n <= Len(wbs)
         THEN [ret |-> identifier.n, touched |-> {identifier.n}]
         ELSE [ret |-> 0, touched |-> {}]
    ELSE IF identifier.t = "str" /\ isdigit(identifier.s)
    THEN LET idx == int(identifier.s)
         IN  IF 1 <= idx /\ idx <= Len(wbs)
             THEN [ret |-> idx, touched |-> {idx}]
             ELSE [ret |-> 0, touched |-> {}]
    ELSE IF identifier.t = "str"
    THEN LET i == FirstWorkbookNamed(wbs, identifier.s)
         IN  [ret |-> i, touched |-> IF i = 0 THEN DOMAIN wbs ELSE 1..i]
    ELSE [ret |-> 0, touched |-> {}]

\* wb.Worksheets(name): Excel finds a sheet by name without regard to case and
\* raises com_error (0 here) when there is none
WorksheetNamed(sheets, name) ==
    IF \E i \in DOMAIN sheets : lower(sheets[i].Name) = lower(name)
    THEN CHOOSE i \in DOMAIN sheets : lower(sheets[i].Name) = lower(name)
    ELSE 0

\* get_worksheet counting positions from 0
get_worksheet_from_zero(wbs, identifier, sheet_identifier) ==
    LET w == get_workbook(wbs, identifier).ret
    IN  IF w = 0 THEN <<0, 0>>
        ELSE IF sheet_identifier.t = "int"
        THEN IF 0 <= sheet_identifier.n /\ sheet_identifier.n < Len(wbs[w].Worksheets)
             THEN <<w, sheet_identifier.n + 1>>
             ELSE <<0, 0>>
        ELSE IF sheet_identifier.t = "str"
        THEN LET k == WorksheetNamed(wbs[w].Worksheets, sheet_identifier.s)
             IN  IF k = 0 THEN <<0, 0>> ELSE <<w, k>>
        ELSE <<0, 0>>

\* get_worksheet on a live connection: <<workbook position, sheet position>>,
\* <<0, 0>> for None.  It raises nothing: every exception becomes None.
get_worksheet(wbs, identifier, sheet_identifier) ==
    LET w == get_workbook(wbs, identifier).ret
    IN  IF w = 0 THEN <<0, 0>>
        ELSE IF sheet_identifier.t = "int"
        THEN IF 1 <= sheet_identifier.n /\ sheet_identifier.n <= Len(wbs[w].Worksheets)
             THEN <<w, sheet_identifier.n>>
             ELSE <<0, 0>>
        ELSE IF sheet_identifier.t = "str"
        THEN LET k == WorksheetNamed(wbs[w].Worksheets, sheet_identifier.s)
             IN  IF k = 0 THEN <<0, 0>> ELSE <<w, k>>
        ELSE <<0, 0>>

\* An editor outcome that raised / that returned
Raise(type, msg, wbs, calls) == [exc |-> Exc(type, msg), ret |-> None, wbs |-> wbs, calls |-> calls]
Return(ret, wbs, calls) == [exc |-> NoExc, ret |-> ret, wbs |-> wbs, calls |-> calls]

\* _performance_mode whose finally clause leaves DisplayAlerts off
_performance_mode_alerts_off(su, da) == [inside |-> <<FALSE, FALSE>>, after |-> <<su, FALSE>>]

\* _performance_mode: ScreenUpdating and DisplayAlerts are False inside the
\* block and are put back by the finally clause, however the block ends
_performance_mode(su, da) == [inside |-> <<FALSE, FALSE>>, after |-> <<su, da>>]
\* The outcome of a `with self._performance_mode():` block
InPerformanceMode(outcome) ==
    [exc |-> outcome.exc, ret |-> outcome.ret, wbs |-> outcome.wbs,
     calls |-> outcome.calls, perf |-> TRUE]

\* list_open_workbooks (wb.Saved is not tracked)
ReadOnlySuffix == <<" ", "(", "R", "e", "a", "d", "O", "n", "l", "y", ")">>
list_open_workbooks(wbs) ==
    Return([i \in DOMAIN wbs |->
              [name |-> wbs[i].Name,
               path |-> IF ~wbs[i].ReadOnly THEN FullName(wbs[i])
                        ELSE FullName(wbs[i]) \o ReadOnlySuffix,
               sheets_count |-> Len(wbs[i].Worksheets),
               index |-> i]],
           wbs, <<>>)

\* save_workbook lines 163-171: the FileFormat handed to SaveAs
FileFormatFor(abs_path) ==
    IF endswith(lower(abs_path), <<".", "x", "l", "s", "x">>) THEN PyInt(xlOpenXMLWorkbook)
    ELSE IF endswith(lower(abs_path), <<".", "x", "l", "s", "m">>) THEN PyInt(xlOpenXMLWorkbookMacroEnabled)
    ELSE IF endswith(lower(abs_path), <<".", "x", "l", "s", "b">>) THEN PyInt(xlExcel12)
    ELSE IF endswith(lower(abs_path), <<".", "x", "l", "s">>) THEN PyInt(xlExcel8)
    ELSE None

\* Excel refuses SaveAs under the name of another open workbook, and Save of
\* a read-only workbook: both raise com_error
SaveAsRefused(docs, w, abs_path) ==
    \E j \in DOMAIN docs : j # w /\ lower(docs[j].Name) = lower(basename(abs_path))

\* save_workbook without the wb.Path test: Save() on any workbook
save_workbook_no_path_test(wbs, identifier, save_path) ==
    LET w == get_workbook(wbs, identifier).ret
    IN  IF w = 0 THEN Raise("ValueError", "Workbook not found.", wbs, <<>>)
        ELSE IF Truthy(save_path)
        THEN Return(None,
                    [wbs EXCEPT ![w].Name = basename(abspath(save_path.s)),
                                ![w].Path = dirname(abspath(save_path.s)),
                                ![w].ReadOnly = FALSE],
                    <<[op |-> "SaveAs", doc |-> w, path |-> abspath(save_path.s),
                       format |-> None]>>)
        ELSE Return(None, wbs, <<[op |-> "Save", doc |-> w]>>)

save_workbook(wbs, identifier, save_path) ==
    LET w == get_workbook(wbs, identifier).ret
    IN  IF w = 0 THEN Raise("ValueError", "Workbook not found.", wbs, <<>>)
        ELSE InPerformanceMode(
        IF Truthy(save_path)
        THEN LET abs_path == abspath(save_path.s)
                 call == [op |-> "SaveAs", doc |-> w, path |-> abs_path,
                          format |-> FileFormatFor(abs_path)]
             IN  IF SaveAsRefused(wbs, w, abs_path)
                 THEN Raise("com_error", "SaveAs failed", wbs, <<call>>)
                 ELSE Return(None,
                             [wbs EXCEPT ![w].Name = basename(abs_path),
                                         ![w].Path = dirname(abs_path),
                                         ![w].ReadOnly = FALSE],
                             <<call>>)
        ELSE IF wbs[w].Path # <<>>
        THEN IF wbs[w].ReadOnly
             THEN Raise("com_error", "Save failed", wbs, <<[op |-> "Save", doc |-> w]>>)
             ELSE Return(None, wbs, <<[op |-> "Save", doc |-> w]>>)
        ELSE Raise("ValueError", "save_path is required for a new workbook that hasn't been saved before.",
                   wbs, <<>>))

\* list_worksheets: an unknown workbook gives the empty list, not an exception
list_worksheets(wbs, identifier) ==
    LET w == get_workbook(wbs, identifier).ret
    IN  IF w = 0 THEN Return(<<>>, wbs, <<>>)
        ELSE Return([i \in DOMAIN wbs[w].Worksheets |->
                        [name |-> wbs[w].Worksheets[i].Name, index |-> i]],
                    wbs, <<>>)

\* The name Excel gives a new sheet: "S" and the least number not in use
DefaultSheetName(sheets) ==
    LET free(k) == \A i \in DOMAIN sheets : lower(sheets[i].Name) # <<"s", Digits[k + 1]>>
        k == CHOOSE k \in 1..(Len(sheets) + 1) :
                 free(k) /\ \A j \in 1..(Len(sheets) + 1) : free(j) => k <= j
    IN  <<"S", Digits[k + 1]>>

\* add_worksheet: the sheet goes last; a name Excel refuses (one in use)
\* leaves the default name
add_worksheet(wbs, identifier, sheet_name) ==
    LET w == get_workbook(wbs, identifier).ret
    IN  IF w = 0 THEN Raise("ValueError", "Workbook not found.", wbs, <<>>)
        ELSE LET sheets == wbs[w].Worksheets
                 refused == \E i \in DOMAIN sheets : lower(sheets[i].Name) = lower(sheet_name.s)
                 name == IF Truthy(sheet_name) /\ ~refused THEN sheet_name.s
                         ELSE DefaultSheetName(sheets)
             IN  InPerformanceMode(
                     Return([name |-> name, index |-> Len(sheets) + 1],
                            [wbs EXCEPT ![w].Worksheets = Append(sheets, Sheet(name))],
                            <<>>))

(* Cells.  Excel keeps every number as a double, so a Python int written to *)
(* a cell is read back as a float.                                          *)
CellStore(value) == IF value.t = "int" THEN PyFloat(value.n) ELSE value

CellsOf(wbs, ws) == wbs[ws[1]].Worksheets[ws[2]].Cells
IsSingleCell(rows) == Len(rows) = 1 /\ Len(rows[1]) = 1
\* Range.Value as a tuple of rows
RowValues(cells, rows) == [i \in DOMAIN rows |-> [j \in DOMAIN rows[i] |-> cells[rows[i][j]]]]
Tuple(rows) == [t |-> "tuple", n |-> 0, s |-> <<>>, rows |-> rows]
\* Range.Value: the cell's value for one cell, a tuple of tuples for several
RangeValue(cells, rows) ==
    IF IsSingleCell(rows) THEN cells[rows[1][1]] ELSE Tuple(RowValues(cells, rows))

WorksheetNotFound == "Worksheet not found."

\* get_cell_value lines 305-318: what becomes of the value read
ConvertCellValue(value) ==
    IF value.t = "float" /\ value.n > DateSerialLow /\ value.n < DateSerialHigh
    THEN PyTime(value.n)
    ELSE IF value.t = "Decimal" THEN PyFloat(value.n)
    ELSE value

get_cell_value(wbs, identifier, sheet_identifier, cell_address) ==
    LET ws == get_worksheet(wbs, identifier, sheet_identifier)
        rows == RangeRows(cell_address)
    IN  IF ws = <<0, 0>> THEN Raise("ValueError", WorksheetNotFound, wbs, <<>>)
        ELSE IF rows = <<>> THEN Raise("com_error", "Range failed", wbs, <<>>)
        ELSE Return(ConvertCellValue(RangeValue(CellsOf(wbs, ws), rows)), wbs, <<>>)

\* cell.Value = value on every cell of the range
WriteCells(cells, rows, value) ==
    [a \in DOMAIN cells |-> IF \E i \in DOMAIN rows : \E j \in DOMAIN rows[i] : rows[i][j] = a
                     THEN CellStore(value) ELSE cells[a]]

set_cell_value(wbs, identifier, sheet_identifier, cell_address, value) ==
    LET ws == get_worksheet(wbs, identifier, sheet_identifier)
        rows == RangeRows(cell_address)
    IN  IF ws = <<0, 0>> THEN Raise("ValueError", WorksheetNotFound, wbs, <<>>)
        ELSE IF rows = <<>> THEN Raise("com_error", "Range failed", wbs, <<>>)
        ELSE Return(None,
                    [wbs EXCEPT ![ws[1]].Worksheets[ws[2]].Cells =
                                    WriteCells(CellsOf(wbs, ws), rows, value)],
                    <<>>)

\* get_range_values: one cell is wrapped as ((value,),)
get_range_values(wbs, identifier, sheet_identifier, range_address) ==
    LET ws == get_worksheet(wbs, identifier, sheet_identifier)
        rows == RangeRows(range_address)
    IN  IF ws = <<0, 0>> THEN Raise("ValueError", WorksheetNotFound, wbs, <<>>)
        ELSE IF rows = <<>> THEN Raise("ValueError", "Invalid range address.", wbs, <<>>)
        ELSE LET values == RangeValue(CellsOf(wbs, ws), rows)
             IN  IF values.t # "tuple"
                 THEN Return(Tuple(<< <<values>> >>), wbs, <<>>)
                 ELSE Return(values, wbs, <<>>)

\* start_range.Resize(num_rows, num_cols).Value = values; cells off the
\* tracked grid are not kept
ResizeWrite(cells, start, values) ==
    [a \in DOMAIN cells |->
        LET i == RowOf(a) - RowOf(start) + 1
            j == ColOf(a) - ColOf(start) + 1
        IN  IF i \in DOMAIN values /\ j \in 1..Len(values[1]) /\ j \in DOMAIN values[i]
            THEN CellStore(values[i][j]) ELSE cells[a]]

\* not values or not isinstance(values, list) or not isinstance(values[0], list)
IsListOfLists(values) == values.t = "list" /\ values.n > 0 /\ values.nested

set_range_values(wbs, identifier, sheet_identifier, start_cell, values) ==
    LET ws == get_worksheet(wbs, identifier, sheet_identifier)
        rows == RangeRows(start_cell)
    IN  IF ws = <<0, 0>> THEN Raise("ValueError", WorksheetNotFound, wbs, <<>>)
        ELSE IF ~IsListOfLists(values)
        THEN Raise("ValueError", "Input 'values' must be a non-empty list of lists.", wbs, <<>>)
        ELSE InPerformanceMode(
        IF rows = <<>> THEN Raise("com_error", "Range failed", wbs, <<>>)
        ELSE Return(None,
                    [wbs EXCEPT ![ws[1]].Worksheets[ws[2]].Cells =
                                    ResizeWrite(CellsOf(wbs, ws), rows[1][1], values.rows)],
                    <<>>))

(* ws.UsedRange: the rows from the first to the last cell in use; cell A1   *)
(* alone on a sheet with nothing in use.                                    *)
UsedRowSet(cells) == {RowOf(a) : a \in {b \in DOMAIN cells : cells[b] # None}}
Min(S) == CHOOSE x \in S : \A y \in S : x <= y
Max(S) == CHOOSE x \in S : \A y \in S : y <= x
UsedFirstRow(cells) == IF UsedRowSet(cells) = {} THEN 1 ELSE Min(UsedRowSet(cells))
UsedLastRow(cells) == IF UsedRowSet(cells) = {} THEN 1 ELSE Max(UsedRowSet(cells))
UsedRange(cells) ==
    [i \in 1..(UsedLastRow(cells) - UsedFirstRow(cells) + 1) |->
        <<CellAt(UsedFirstRow(cells) + i - 1, 1)>>]
\* ws.Cells(row, col).Value: cells off the tracked grid are empty
CellValueAt(cells, r, c) == IF CellAt(r, c) \in DOMAIN cells THEN cells[CellAt(r, c)] ELSE None

find_used_ranges(wbs, identifier, sheet_identifier) ==
    LET ws == get_worksheet(wbs, identifier, sheet_identifier)
    IN  IF ws = <<0, 0>> THEN Raise("ValueError", WorksheetNotFound, wbs, <<>>)
        ELSE LET cells == CellsOf(wbs, ws)
             IN  Return(<<[rows |-> Len(UsedRange(cells)), cols |-> 1,
                           first_row |-> UsedFirstRow(cells),
                           last_row |-> UsedFirstRow(cells) + Len(UsedRange(cells)) - 1,
                           first_col |-> 1, last_col |-> 1]>>,
                        wbs, <<>>)

RECURSIVE Flatten(_)
Flatten(rows) == IF rows = <<>> THEN <<>> ELSE Head(rows) \o Flatten(Tail(rows))

IsTextCell(cells, a) == cells[a].t = "str" /\ strip(cells[a].s) # <<>>
StringCell(value, a) == [value |-> value, address |-> a, row |-> RowOf(a), col |-> ColOf(a)]

\* extract_string_cells: a used range of one cell reports any str unstripped;
\* a larger one reports the stripped non-blank strings, row by row
StringCellsOf(cells) ==
    LET used == UsedRange(cells)
    IN  IF IsSingleCell(used)
        THEN IF cells[used[1][1]].t = "str"
             THEN <<StringCell(cells[used[1][1]].s, used[1][1])>>
             ELSE <<>>
        ELSE LET text == SelectSeq(Flatten(used), LAMBDA a : IsTextCell(cells, a))
             IN  [k \in DOMAIN text |-> StringCell(strip(cells[text[k]].s), text[k])]

extract_string_cells(wbs, identifier, sheet_identifier) ==
    LET ws == get_worksheet(wbs, identifier, sheet_identifier)
    IN  IF ws = <<0, 0>> THEN Raise("ValueError", WorksheetNotFound, wbs, <<>>)
        ELSE Return(StringCellsOf(CellsOf(wbs, ws)), wbs, <<>>)

\* _determine_cell_type (no cell of the model holds a formula)
_determine_cell_type(value) ==
    IF value.t = "None" \/ value = PyStr(<<>>) THEN "empty"
    ELSE IF value.t = "str" THEN "text"
    ELSE IF value.t \in {"int", "float"} THEN "number"
    ELSE "other"

get_cell_types_in_range(wbs, identifier, sheet_identifier, range_address) ==
    LET ws == get_worksheet(wbs, identifier, sheet_identifier)
        rows == RangeRows(range_address)
    IN  IF ws = <<0, 0>> THEN Raise("ValueError", WorksheetNotFound, wbs, <<>>)
        ELSE IF rows = <<>> THEN Raise("com_error", "Range failed", wbs, <<>>)
        ELSE Return([i \in DOMAIN rows |-> [j \in DOMAIN rows[i] |->
                        _determine_cell_type(CellsOf(wbs, ws)[rows[i][j]])]],
                    wbs, <<>>)

IsNonZeroNumber(value) == value.t \in {"int", "float"} /\ value.n # 0

\* analyze_label_value_patterns lines 606-645
NumbersBelow(cells, sc) ==
    LET stop == Min({sc.row + HeaderScanRows,
                     Len(UsedRange(cells)) + UsedFirstRow(cells)})
    IN  {r \in (sc.row + 1)..(stop - 1) : IsNonZeroNumber(CellValueAt(cells, r, sc.col))}

PatternsOf(cells) ==
    LET string_cells == StringCellsOf(cells)
        pairs == SelectSeq(string_cells,
                     LAMBDA sc : IsNonZeroNumber(CellValueAt(cells, sc.row, sc.col + 1)))
        headers == SelectSeq(string_cells,
                     LAMBDA sc : Cardinality(NumbersBelow(cells, sc)) >= 2)
    IN  [horizontal_pairs |->
             [k \in DOMAIN pairs |->
                 [label |-> pairs[k].value, label_address |-> pairs[k].address,
                  value |-> CellValueAt(cells, pairs[k].row, pairs[k].col + 1),
                  row |-> pairs[k].row]],
         vertical_lists |-> <<>>,
         table_headers |->
             [k \in DOMAIN headers |->
                 [header |-> headers[k].value, header_address |-> headers[k].address,
                  data_count |-> Cardinality(NumbersBelow(cells, headers[k])),
                  data_range |-> <<headers[k].address,
                                   CellAt(Max(NumbersBelow(cells, headers[k])), headers[k].col)>>]],
         summary |-> [total_string_cells |-> Len(string_cells), used_ranges |-> 1]]

analyze_label_value_patterns(wbs, identifier, sheet_identifier) ==
    LET ws == get_worksheet(wbs, identifier, sheet_identifier)
    IN  IF ws = <<0, 0>> THEN Raise("ValueError", WorksheetNotFound, wbs, <<>>)
        ELSE InPerformanceMode(Return(PatternsOf(CellsOf(wbs, ws)), wbs, <<>>))

----------------------------------------------------------------------------
(* mcp_excel_server_win32.py: the tool layer *)

ExcelTools == {"list_open_workbooks", "save_workbook", "list_worksheets", "add_worksheet",
               "get_cell_value", "set_cell_value", "get_range_values", "set_range_values",
               "find_used_ranges", "extract_string_cells", "get_cell_types_in_range",
               "analyze_label_value_patterns"}

_handle_excel_tool_error(error) ==
    IF error.raised = "ConnectionError" \/ error.msg = "RPC server is unavailable"
    THEN [error |-> "Could not connect to Excel. Please ensure it is running."]
    ELSE IF error.raised = "ValueError" THEN [error |-> error.msg]
    ELSE IF error.raised = "com_error" THEN [error |-> "Excel Communication Error"]
    ELSE [error |-> "Error in tool"]

\* The COM state after a call: connecting sets DisplayAlerts (line 43), and
\* a block under _performance_mode leaves what its finally clause restores
ExcelAfter(call) ==
    LET da == IF call.conn.attempts > 0 /\ call.conn.app = "live"
              THEN TRUE ELSE DisplayAlerts
        pm == _performance_mode(ScreenUpdating, da)
        perf == "perf" \in DOMAIN call.out
    IN  /\ app' = call.conn.app
        /\ running' = call.conn.running
        /\ Workbooks' = call.out.wbs
        /\ ScreenUpdating' = IF perf THEN pm.after[1] ELSE ScreenUpdating
        /\ DisplayAlerts' = IF perf THEN pm.after[2] ELSE da
        /\ UNCHANGED <<server, editor, Presentations, libVars>>

(* Inputs of the Excel tool calls *)
\* A list: n is its length; rows are its rows when it is a list of lists
ListOfLists(rows) == [t |-> "list", n |-> Len(rows), s |-> <<>>, rows |-> rows, nested |-> TRUE]
FlatList == [t |-> "list", n |-> 1, s |-> <<>>, rows |-> <<>>, nested |-> FALSE]

Unknown == PyStr(<<"z">>)
CellValues == {None, PyStr(<<>>), PyInt(0), PyInt(2)}
RangeLists == {ListOfLists(<< <<PyInt(2)>> >>), ListOfLists(<< <<PyInt(0)>>, <<PyStr(<<>>)>> >>)}
BadLists == {None, FlatList, ListOfLists(<<>>)}
ToolIds == {PyInt(1), PyStr(<<"1">>), Unknown}
SheetNames == {None, PyStr(<<"s", "1">>), PyStr(<<"x">>)}
SavePaths == {None, PyStr(<<>>), PyStr(<<"n", ".", "X", "L", "S", "X">>), PyStr(<<"n", ".", "t">>)}

\* <<identifier, sheet_identifier>> pairs that name the first sheet of the
\* first workbook, and pairs that name no sheet
GoodTargets == {<<PyInt(1), PyInt(1)>>, <<PyStr(<<"1">>), PyStr(<<"s", "1">>)>>}
BadTargets == {<<Unknown, PyInt(1)>>, <<PyInt(1), PyInt(MaxSheets + 1)>>,
               <<PyInt(1), Unknown>>, <<PyInt(1), PyFloat(1)>>}
Targets == GoodTargets \cup BadTargets
\* <<identifier, sheet_identifier, address>>
ReadCases(addresses) ==
    {<<t[1], t[2], a>> : t \in GoodTargets, a \in addresses}
    \cup {<<t[1], t[2], "A1">> : t \in BadTargets}
    \cup {<<PyInt(1), PyInt(1), "??">>}
\* <<identifier, sheet_identifier, address, value>>: every value on the good
\* targets, one value on the bad targets and on a bad address, and the bad
\* values on a good target
WriteCases(values, probe, bad) ==
    {<<t[1], t[2], a, v>> : t \in GoodTargets, a \in {"A1", "A2"}, v \in values}
    \cup {<<t[1], t[2], "A1", probe>> : t \in BadTargets}
    \cup {<<PyInt(1), PyInt(1), "??", probe>>}
    \cup {<<PyInt(1), PyInt(1), "A1", v>> : v \in bad}

\* The identifiers get_workbook is tried on: positions, digit strings, the
\* names and full paths of the open documents in both cases, and strangers
DocumentIds(docs, max) ==
    {PyInt(i) : i \in 0..(max + 1)}
    \cup {PyStr(<<Digits[i + 1]>>) : i \in 0..(max + 1)}
    \cup {PyStr(docs[i].Name) : i \in DOMAIN docs}
    \cup {PyStr(lower(docs[i].Name)) : i \in DOMAIN docs}
    \cup {PyStr(FullName(docs[i])) : i \in DOMAIN docs}
    \cup {PyStr(lower(FullName(docs[i]))) : i \in DOMAIN docs}
    \cup {Unknown, PyFloat(1)}

\* str(value) of a pywintypes time object
DateText == PyStr(<<"d", "a", "t", "e">>)
\* the conversion testing the value of the first cell instead of the tuple
RowsAsLists_first_value(values_tuple) ==
    IF values_tuple.t = "tuple" /\ values_tuple.rows # <<>> /\ Truthy(values_tuple.rows[1][1])
    THEN ListOfLists(values_tuple.rows) ELSE ListOfLists(<<>>)

\* [list(row) for row in values_tuple] if values_tuple else []
RowsAsLists(values_tuple) ==
    IF values_tuple.t = "tuple" /\ values_tuple.rows # <<>>
    THEN ListOfLists(values_tuple.rows) ELSE ListOfLists(<<>>)

\* What an Excel tool answers for the editor outcome `out`; success is the
\* dictionary the tool builds from the method's return value
ExcelToolPayload(out, success) ==
    IF out.exc.raised # "none" THEN _handle_excel_tool_error(out.exc) ELSE success

\* A call of an editor method on the COM state of the moment: _ensure_connection
\* first, then the method body on a live connection; out is the outcome of
\* the method body on the open workbooks
ExcelCall(canLaunch, out) ==
    LET c == _ensure_connection(app, running, canLaunch)
    IN  [conn |-> c,
         out |-> IF c.exc.raised # "none"
                 THEN [exc |-> c.exc, ret |-> None, wbs |-> Workbooks, calls |-> <<>>]
                 ELSE out]

\* One Excel tool call: `if not editor` answers at once, otherwise the
\* method runs and its exception, if any, is flattened to an error payload
ExcelTool(tool, args, out, success) ==
    /\ server = "excel"
    /\ reply = NoReply
    /\ IF editor = "None"
       THEN /\ reply' = [tool |-> tool, args |-> args, entered |-> FALSE,
                         exc |-> NoExc, ret |-> None, calls |-> <<>>, attempts |-> 0,
                         payload |-> [error |-> "Excel editor not initialized."],
                         escaped |-> "none"]
            /\ UNCHANGED <<server, comVars, libVars>>
       ELSE \E canLaunch \in (IF app = "live" THEN {TRUE} ELSE BOOLEAN) :
                LET call == ExcelCall(canLaunch, out)
                IN  /\ reply' = [tool |-> tool, args |-> args, entered |-> TRUE,
                                 exc |-> call.out.exc, ret |-> call.out.ret,
                                 calls |-> call.out.calls, attempts |-> call.conn.attempts,
                                 payload |-> ExcelToolPayload(call.out, success),
                                 escaped |-> "none"]
                    /\ ExcelAfter(call)

\* A direct call of an editor method that no tool exposes by itself
ExcelMethod(name, args, out) ==
    /\ server = "excel"
    /\ reply = NoReply
    /\ editor = "ok"
    /\ \E canLaunch \in (IF app = "live" THEN {TRUE} ELSE BOOLEAN) :
           LET call == ExcelCall(canLaunch, out)
           IN  /\ reply' = [tool |-> name, args |-> args, entered |-> TRUE,
                            exc |-> call.out.exc, ret |-> call.out.ret,
                            calls |-> call.out.calls, attempts |-> call.conn.attempts,
                            payload |-> [direct |-> TRUE], escaped |-> call.out.exc.raised]
               /\ ExcelAfter(call)

\* The except clause of list_open_workbooks and of list_open_presentations
\* when the application exits while its documents are listed: the com_error
\* says "RPC server is unavailable", the handler connects or launches once
\* more (r is what that gives) and raises the exception on.  c is what
\* _ensure_connection gave at the start of the call.
RpcUnavailable(c, r) ==
    [conn |-> [exc |-> NoExc, app |-> r.app, running |-> r.running,
               attempts |-> c.attempts + 1],
     out |-> Raise("com_error", "RPC server is unavailable", <<>>, <<>>)]

tool_list_open_workbooks ==
    \/ LET out == list_open_workbooks(Workbooks) IN
           ExcelTool("list_open_workbooks", <<>>, out, [workbooks |-> out.ret])
    \/ /\ server = "excel"
       /\ reply = NoReply
       /\ editor = "ok"
       /\ \E canLaunch \in (IF app = "live" THEN {TRUE} ELSE BOOLEAN), again \in BOOLEAN :
              LET c == _ensure_connection(app, running, canLaunch)
                  call == RpcUnavailable(c, _connect_or_launch_excel(FALSE, again))
              IN  /\ c.exc.raised = "none"
                  /\ reply' = [tool |-> "list_open_workbooks", args |-> <<>>,
                               entered |-> TRUE, exc |-> call.out.exc, ret |-> None,
                               calls |-> <<>>, attempts |-> call.conn.attempts,
                               payload |-> _handle_excel_tool_error(call.out.exc),
                               escaped |-> "none"]
                  /\ app' = call.conn.app
                  /\ running' = call.conn.running
                  /\ Workbooks' = call.out.wbs
                  /\ ScreenUpdating' = TRUE
                  /\ DisplayAlerts' = TRUE
                  /\ UNCHANGED <<server, editor, Presentations, libVars>>

tool_save_workbook ==
    \E identifier \in ToolIds, save_path \in SavePaths :
      LET out == save_workbook(Workbooks, identifier, save_path) IN
        ExcelTool("save_workbook", <<identifier, save_path>>, out,
                  [message |-> "Save command issued"])

tool_list_worksheets ==
    \E identifier \in ToolIds :
      LET out == list_worksheets(Workbooks, identifier) IN
        ExcelTool("list_worksheets", <<identifier>>, out, [worksheets |-> out.ret])

tool_add_worksheet ==
    \E identifier \in ToolIds, sheet_name \in SheetNames :
      LET out == add_worksheet(Workbooks, identifier, sheet_name) IN
        /\ LET w == get_workbook(Workbooks, identifier).ret
           IN  w # 0 => Len(Workbooks[w].Worksheets) < MaxSheets
        /\ ExcelTool("add_worksheet", <<identifier, sheet_name>>, out,
                     [message |-> "Worksheet added successfully.", sheet_info |-> out.ret])

tool_get_cell_value ==
    \E c \in ReadCases({"A1", "A2"}) :
      LET identifier == c[1]  sheet_identifier == c[2]  cell_address == c[3]
          out == get_cell_value(Workbooks, identifier, sheet_identifier, cell_address) IN
        ExcelTool("get_cell_value", <<identifier, sheet_identifier, cell_address>>, out,
                  [value |-> IF out.ret.t = "time" THEN DateText ELSE out.ret])

tool_set_cell_value ==
    \E c \in WriteCases(CellValues, PyInt(2), {}) :
      LET identifier == c[1]  sheet_identifier == c[2]  cell_address == c[3]  value == c[4]
          out == set_cell_value(Workbooks, identifier, sheet_identifier, cell_address, value) IN
        ExcelTool("set_cell_value", <<identifier, sheet_identifier, cell_address, value>>, out,
                  [message |-> "Successfully set cell"])

tool_get_range_values ==
    \E c \in ReadCases({"A1", "A2", "A1:A2"}) :
      LET identifier == c[1]  sheet_identifier == c[2]  range_address == c[3]
          out == get_range_values(Workbooks, identifier, sheet_identifier, range_address) IN
        ExcelTool("get_range_values", <<identifier, sheet_identifier, range_address>>, out,
                  [values |-> RowsAsLists(out.ret)])

tool_set_range_values ==
    \E c \in WriteCases(RangeLists, ListOfLists(<< <<PyInt(2)>> >>), BadLists) :
      LET identifier == c[1]  sheet_identifier == c[2]  start_cell == c[3]  values == c[4]
          out == set_range_values(Workbooks, identifier, sheet_identifier, start_cell, values) IN
        ExcelTool("set_range_values", <<identifier, sheet_identifier, start_cell, values>>, out,
                  [message |-> "Successfully set range"])

tool_find_used_ranges ==
    \E c \in Targets :
      LET identifier == c[1]  sheet_identifier == c[2]
          out == find_used_ranges(Workbooks, identifier, sheet_identifier) IN
        ExcelTool("find_used_ranges", <<identifier, sheet_identifier>>, out,
                  [used_ranges |-> out.ret])

tool_extract_string_cells ==
    \E c \in Targets :
      LET identifier == c[1]  sheet_identifier == c[2]
          out == extract_string_cells(Workbooks, identifier, sheet_identifier) IN
        ExcelTool("extract_string_cells", <<identifier, sheet_identifier>>, out,
                  [string_cells |-> out.ret])

tool_get_cell_types_in_range ==
    \E c \in ReadCases({"A1", "A1:A2"}) :
      LET identifier == c[1]  sheet_identifier == c[2]  range_address == c[3]
          out == get_cell_types_in_range(Workbooks, identifier, sheet_identifier,
                                         range_address) IN
        ExcelTool("get_cell_types_in_range", <<identifier, sheet_identifier, range_address>>,
                  out, [cell_types |-> out.ret])

tool_analyze_label_value_patterns ==
    \E c \in Targets :
      LET identifier == c[1]  sheet_identifier == c[2]
          out == analyze_label_value_patterns(Workbooks, identifier, sheet_identifier) IN
        ExcelTool("analyze_label_value_patterns", <<identifier, sheet_identifier>>, out,
                  [patterns |-> out.ret])

\* Direct calls of the two resolvers
call_get_workbook ==
    \E identifier \in DocumentIds(Workbooks, MaxWorkbooks) :
        ExcelMethod("get_workbook", <<identifier>>,
                    [exc |-> NoExc, ret |-> get_workbook(Workbooks, identifier),
                     wbs |-> Workbooks, calls |-> <<>>])

call_get_worksheet ==
    \E c \in Targets \cup {<<PyInt(1), PyInt(0)>>, <<PyInt(1), PyInt(2)>>, <<PyInt(1), PyStr(<<"x">>)>>} :
      LET identifier == c[1]  sheet_identifier == c[2] IN
        ExcelMethod("get_worksheet", <<identifier, sheet_identifier>>,
                    [exc |-> NoExc,
                     ret |-> get_worksheet(Workbooks, identifier, sheet_identifier),
                     wbs |-> Workbooks, calls |-> <<>>])

----------------------------------------------------------------------------
(* mcp_powerpoint_server_win32.py: class PowerPointEditorWin32 *)

ppSaveAsOpenXMLPresentation == 24
msoShapeRectangle == 1
msoPlaceholder == 14
msoAutoShape == 1
msoTextBox == 17
ppPlaceholderTitle == 1
ppPlaceholderBody == 2
\* pres.SlideMaster.CustomLayouts.Count of the decks of the model: layout 1
\* is the title layout (one title placeholder), layout 2 the blank layout
CustomLayoutsCount == 2

PLACEHOLDER_NAME_MAP(name) ==
    CASE name = <<"t", "i", "t", "l", "e">> -> PyInt(ppPlaceholderTitle)
      [] name = <<"b", "o", "d", "y">> -> PyInt(ppPlaceholderBody)
      [] OTHER -> None

SHAPE_TYPE_NAME_MAP(name) ==
    CASE name = <<"r", "e", "c", "t", "a", "n", "g", "l", "e">> -> PyInt(1)
      [] name = <<"t", "e", "x", "t", "b", "o", "x">> -> PyInt(msoTextBox)
      [] name = <<"p", "l", "a", "c", "e", "h", "o", "l", "d", "e", "r">> -> PyInt(msoPlaceholder)
      [] OTHER -> None

(* A shape of a slide; TextFrame.HasText is "the text is not empty" *)
Shape(id, name, type, phType, text, left, top, width, height) ==
    [Id |-> id, Name |-> name, Type |-> type, PhType |-> phType, HasTextFrame |-> TRUE,
     Text |-> text, Left |-> left, Top |-> top, Width |-> width, Height |-> height]
HasText(shape) == shape.HasTextFrame /\ shape.Text # <<>>
\* The Id PowerPoint gives a new shape of a slide: one more than the largest
NewShapeId(shapes) == Max({1} \cup {shapes[i].Id : i \in DOMAIN shapes}) + 1
\* The shapes a new slide gets from its layout
LayoutShapes(layout_index) ==
    IF layout_index = 1
    THEN <<Shape(2, <<"T", "i", "t", "l", "e", " ", "1">>, msoPlaceholder, ppPlaceholderTitle,
                 <<>>, 10, 10, 100, 20)>>
    ELSE <<>>

_connect_or_launch_powerpoint(run, canLaunch) ==
    IF run THEN [app |-> "live", running |-> TRUE, launched |-> FALSE]
    ELSE IF canLaunch THEN [app |-> "live", running |-> TRUE, launched |-> TRUE]
    ELSE [app |-> "None", running |-> FALSE, launched |-> FALSE]

\* _ensure_connection trying a second time when the reconnection gave no handle
ppt_ensure_connection_retry(a, run, canLaunch) ==
    LET c1 == IF a = "None" THEN _connect_or_launch_powerpoint(run, canLaunch)
              ELSE [app |-> a, running |-> run, launched |-> FALSE]
        n1 == IF a = "None" THEN 1 ELSE 0
    IN  IF c1.app = "None"
        THEN [exc |-> Exc("ConnectionError", "Could not connect to or launch PowerPoint."),
              app |-> "None", running |-> c1.running, attempts |-> n1]
        ELSE IF c1.app = "stale"
        THEN LET c2 == _connect_or_launch_powerpoint(c1.running, canLaunch)
                 c3 == IF c2.app = "None"
                       THEN _connect_or_launch_powerpoint(c2.running, canLaunch) ELSE c2
                 n3 == IF c2.app = "None" THEN n1 + 2 ELSE n1 + 1
             IN  IF c3.app = "None"
                 THEN [exc |-> Exc("ConnectionError", "Could not reconnect to PowerPoint."),
                       app |-> "None", running |-> c3.running, attempts |-> n3]
                 ELSE [exc |-> NoExc, app |-> c3.app, running |-> c3.running,
                       attempts |-> n3]
        ELSE [exc |-> NoExc, app |-> c1.app, running |-> c1.running, attempts |-> n1]

\* PowerPointEditorWin32._ensure_connection
ppt_ensure_connection(a, run, canLaunch) ==
    LET c1 == IF a = "None" THEN _connect_or_launch_powerpoint(run, canLaunch)
              ELSE [app |-> a, running |-> run, launched |-> FALSE]
        n1 == IF a = "None" THEN 1 ELSE 0
    IN  IF c1.app = "None"
        THEN [exc |-> Exc("ConnectionError", "Could not connect to or launch PowerPoint."),
              app |-> "None", running |-> c1.running, attempts |-> n1]
        ELSE IF c1.app = "stale"
        THEN LET c2 == _connect_or_launch_powerpoint(c1.running, canLaunch)
             IN  IF c2.app = "None"
                 THEN [exc |-> Exc("ConnectionError", "Could not reconnect to PowerPoint."),
                       app |-> "None", running |-> c2.running, attempts |-> n1 + 1]
                 ELSE [exc |-> NoExc, app |-> c2.app, running |-> c2.running,
                       attempts |-> n1 + 1]
        ELSE [exc |-> NoExc, app |-> c1.app, running |-> c1.running, attempts |-> n1]

list_open_presentations(prs) ==
    Return([i \in DOMAIN prs |->
              [name |-> prs[i].Name,
               path |-> IF prs[i].Path # <<>> THEN PyStr(FullName(prs[i])) ELSE None,
               slides |-> Len(prs[i].Slides),
               index |-> i]],
           prs, <<>>)

\* The first position whose presentation has this name or full name, 0 if none
FirstPresentationNamed(prs, name) ==
    LET hit(i) == prs[i].Name = name \/ FullName(prs[i]) = name
    IN  IF \E i \in DOMAIN prs : hit(i)
        THEN CHOOSE i \in DOMAIN prs : hit(i) /\ \A j \in DOMAIN prs : hit(j) => i <= j
        ELSE 0

\* get_presentation on a live connection: [exc, ret], ret the position of the
\* presentation, 0 for None.  An identifier that is neither int nor str has
\* no isdigit(): AttributeError.
get_presentation(prs, identifier) ==
    IF identifier.t = "int" \/ (identifier.t = "str" /\ isdigit(identifier.s))
    THEN LET idx == IF identifier.t = "int" THEN identifier.n ELSE int(identifier.s)
         IN  [exc |-> NoExc, ret |-> IF 1 <= idx /\ idx <= Len(prs) THEN idx ELSE 0]
    ELSE IF identifier.t = "str"
    THEN [exc |-> NoExc, ret |-> FirstPresentationNamed(prs, identifier.s)]
    ELSE [exc |-> Exc("AttributeError", "object has no attribute 'isdigit'"), ret |-> 0]

save_presentation(prs, identifier, save_path) ==
    LET g == get_presentation(prs, identifier)
        p == g.ret
    IN  IF g.exc # NoExc THEN Raise(g.exc.raised, g.exc.msg, prs, <<>>)
        ELSE IF p = 0 THEN Raise("ValueError", "Presentation not found.", prs, <<>>)
        ELSE IF Truthy(save_path)
        THEN LET abs_path == abspath(save_path.s)
             IN  Return(None,
                        [prs EXCEPT ![p].Name = basename(abs_path),
                                    ![p].Path = dirname(abs_path)],
                        <<[op |-> "SaveAs", doc |-> p, path |-> abs_path,
                           format |-> PyInt(ppSaveAsOpenXMLPresentation)]>>)
        ELSE IF prs[p].Path # <<>>
        THEN Return(None, prs, <<[op |-> "Save", doc |-> p]>>)
        ELSE Raise("ValueError", "save_path is required for a new presentation.", prs, <<>>)

add_slide(prs, identifier, layout_index) ==
    LET g == get_presentation(prs, identifier)
        p == g.ret
    IN  IF g.exc # NoExc THEN Raise(g.exc.raised, g.exc.msg, prs, <<>>)
        ELSE IF p = 0 THEN Raise("ValueError", "Presentation not found.", prs, <<>>)
        ELSE LET layout == IF 1 <= layout_index /\ layout_index <= CustomLayoutsCount
                           THEN layout_index ELSE 1
             IN  Return(PyInt(Len(prs[p].Slides) + 1),
                        [prs EXCEPT ![p].Slides =
                             Append(prs[p].Slides, [Shapes |-> LayoutShapes(layout)])],
                        <<>>)

\* get_slide counting slides from 0
get_slide_from_zero(prs, identifier, slide_index) ==
    LET g == get_presentation(prs, identifier)
    IN  IF g.exc # NoExc THEN [exc |-> g.exc, ret |-> <<0, 0>>]
        ELSE IF g.ret = 0 THEN [exc |-> NoExc, ret |-> <<0, 0>>]
        ELSE IF 0 <= slide_index.n /\ slide_index.n < Len(prs[g.ret].Slides)
        THEN [exc |-> NoExc, ret |-> <<g.ret, slide_index.n + 1>>]
        ELSE [exc |-> NoExc, ret |-> <<0, 0>>]

\* get_slide on a live connection: [exc, ret], ret = <<presentation, slide>>
\* positions, <<0, 0>> for None
get_slide(prs, identifier, slide_index) ==
    LET g == get_presentation(prs, identifier)
    IN  IF g.exc # NoExc THEN [exc |-> g.exc, ret |-> <<0, 0>>]
        ELSE IF g.ret = 0 THEN [exc |-> NoExc, ret |-> <<0, 0>>]
        ELSE IF slide_index.t # "int"
        THEN [exc |-> Exc("TypeError", "'<=' not supported"), ret |-> <<0, 0>>]
        ELSE IF 1 <= slide_index.n /\ slide_index.n <= Len(prs[g.ret].Slides)
        THEN [exc |-> NoExc, ret |-> <<g.ret, slide_index.n>>]
        ELSE [exc |-> NoExc, ret |-> <<0, 0>>]

ShapesOf(prs, slide) == prs[slide[1]].Slides[slide[2]].Shapes
SlideNotFound == "Slide not found in presentation."

\* Appends a shape to a slide and answers its Id
AddShapeTo(prs, slide, shape) ==
    Return(PyInt(shape.Id),
           [prs EXCEPT ![slide[1]].Slides[slide[2]].Shapes = Append(@, shape)],
           <<>>)

add_text_box(prs, identifier, slide_index, text, left, top, width, height) ==
    LET g == get_slide(prs, identifier, slide_index)
    IN  IF g.exc # NoExc THEN Raise(g.exc.raised, g.exc.msg, prs, <<>>)
        ELSE IF g.ret = <<0, 0>> THEN Raise("ValueError", SlideNotFound, prs, <<>>)
        ELSE LET id == NewShapeId(ShapesOf(prs, g.ret))
             IN  AddShapeTo(prs, g.ret,
                     Shape(id, <<"T", "e", "x", "t", "B", "o", "x", "_", Digits[id + 1]>>,
                           msoTextBox, 0, text, left, top, width, height))

add_shape(prs, identifier, slide_index, shape_type, left, top, width, height) ==
    LET g == get_slide(prs, identifier, slide_index)
    IN  IF g.exc # NoExc THEN Raise(g.exc.raised, g.exc.msg, prs, <<>>)
        ELSE IF g.ret = <<0, 0>> THEN Raise("ValueError", SlideNotFound, prs, <<>>)
        ELSE LET id == NewShapeId(ShapesOf(prs, g.ret))
             IN  AddShapeTo(prs, g.ret,
                     Shape(id, <<"S", "h", "a", "p", "e", "_", Digits[id + 1]>>,
                           msoAutoShape, 0, <<>>, left, top, width, height))

\* get_shape_by_id / get_shape_by_name: [exc, ret], ret the position of the
\* shape among the slide's shapes (0 for None) and slide the slide's handle
get_shape_by_id(prs, identifier, slide_index, shape_id) ==
    LET g == get_slide(prs, identifier, slide_index)
    IN  IF g.exc # NoExc \/ g.ret = <<0, 0>> THEN [exc |-> g.exc, slide |-> <<0, 0>>, ret |-> 0]
        ELSE LET shapes == ShapesOf(prs, g.ret)
                 hit(i) == shapes[i].Id = shape_id
             IN  [exc |-> NoExc, slide |-> g.ret,
                  ret |-> IF \E i \in DOMAIN shapes : hit(i)
                          THEN CHOOSE i \in DOMAIN shapes :
                                   hit(i) /\ \A j \in DOMAIN shapes : hit(j) => i <= j
                          ELSE 0]

\* slide.Shapes(name) gives the first shape of that name and raises com_error
\* (None here) when there is none
get_shape_by_name(prs, identifier, slide_index, shape_name) ==
    LET g == get_slide(prs, identifier, slide_index)
    IN  IF g.exc # NoExc \/ g.ret = <<0, 0>> THEN [exc |-> g.exc, slide |-> <<0, 0>>, ret |-> 0]
        ELSE LET shapes == ShapesOf(prs, g.ret)
                 hit(i) == shapes[i].Name = shape_name
             IN  [exc |-> NoExc, slide |-> g.ret,
                  ret |-> IF \E i \in DOMAIN shapes : hit(i)
                          THEN CHOOSE i \in DOMAIN shapes :
                                   hit(i) /\ \A j \in DOMAIN shapes : hit(j) => i <= j
                          ELSE 0]

_get_shape_type_name(type_id) ==
    CASE type_id = 1 -> "Rectangle/AutoShape"
      [] type_id = 17 -> "TextBox"
      [] type_id = msoPlaceholder -> "Placeholder"
      [] OTHER -> "Unknown"

\* The name PLACEHOLDER_NAME_MAP lists first for a placeholder type
PlaceholderTypeName(ph_id) ==
    IF ph_id = ppPlaceholderTitle THEN "title"
    ELSE IF ph_id = ppPlaceholderBody THEN "body" ELSE "none"

\* _get_shape_basic_info; the two placeholder keys, absent from the dictionary
\* of a shape that is no placeholder, are None here
_get_shape_basic_info(shape) ==
    [id |-> shape.Id, name |-> shape.Name, type_id |-> shape.Type,
     type_name |-> _get_shape_type_name(shape.Type),
     left |-> shape.Left, top |-> shape.Top, width |-> shape.Width, height |-> shape.Height,
     has_text |-> HasText(shape),
     is_placeholder |-> shape.Type = msoPlaceholder,
     placeholder_type_id |-> IF shape.Type = msoPlaceholder THEN PyInt(shape.PhType) ELSE None,
     placeholder_type_name |-> IF shape.Type = msoPlaceholder
                               THEN PlaceholderTypeName(shape.PhType) ELSE "none"]

\* Python's `sub in s` for strings
contains(s, sub) ==
    \E i \in 0..(Len(s) - Len(sub)) : SubSeq(s, i + 1, i + Len(sub)) = sub

\* The methods below raise what get_slide raises and answer an empty result
\* for a slide that does not resolve
find_shape_by_text(prs, identifier, slide_index, search_text, partial_match) ==
    LET g == get_slide(prs, identifier, slide_index)
        slide == g.ret
        found(shape) ==
            /\ HasText(shape)
            /\ IF partial_match
               THEN contains(lower(shape.Text), lower(search_text))
               ELSE lower(shape.Text) = lower(search_text)
        hits == SelectSeq(ShapesOf(prs, slide), found)
    IN  IF g.exc # NoExc THEN Raise(g.exc.raised, g.exc.msg, prs, <<>>)
        ELSE IF slide = <<0, 0>> THEN Return(<<>>, prs, <<>>)
        ELSE Return([k \in DOMAIN hits |->
                        [info |-> _get_shape_basic_info(hits[k]),
                         text_preview |-> hits[k].Text]],
                    prs, <<>>)

find_shapes_by_type(prs, identifier, slide_index, shape_type_name) ==
    LET g == get_slide(prs, identifier, slide_index)
        slide == g.ret
        target_type_id == SHAPE_TYPE_NAME_MAP(lower(shape_type_name))
        is_match(shape) ==
            IF target_type_id = PyInt(msoTextBox)
            THEN shape.Type = msoTextBox \/ (shape.Type = msoAutoShape /\ HasText(shape))
            ELSE shape.Type = target_type_id.n
        hits == SelectSeq(ShapesOf(prs, slide), is_match)
    IN  IF g.exc # NoExc THEN Raise(g.exc.raised, g.exc.msg, prs, <<>>)
        ELSE IF slide = <<0, 0>> \/ target_type_id = None THEN Return(<<>>, prs, <<>>)
        ELSE Return([k \in DOMAIN hits |-> _get_shape_basic_info(hits[k])], prs, <<>>)

get_placeholder_shape(prs, identifier, slide_index, placeholder_name) ==
    LET g == get_slide(prs, identifier, slide_index)
        slide == g.ret
        target_ph_type == PLACEHOLDER_NAME_MAP(lower(placeholder_name))
        is_match(shape) == shape.Type = msoPlaceholder /\ shape.PhType = target_ph_type.n
        hits == SelectSeq(ShapesOf(prs, slide), is_match)
    IN  IF g.exc # NoExc THEN Raise(g.exc.raised, g.exc.msg, prs, <<>>)
        ELSE IF slide = <<0, 0>> \/ target_ph_type = None \/ hits = <<>>
        THEN Return(None, prs, <<>>)
        ELSE Return(_get_shape_basic_info(hits[1]), prs, <<>>)

list_shapes(prs, identifier, slide_index) ==
    LET g == get_slide(prs, identifier, slide_index)
        slide == g.ret
    IN  IF g.exc # NoExc THEN Raise(g.exc.raised, g.exc.msg, prs, <<>>)
        ELSE IF slide = <<0, 0>> THEN Return(<<>>, prs, <<>>)
        ELSE Return([i \in DOMAIN ShapesOf(prs, slide) |->
                        _get_shape_basic_info(ShapesOf(prs, slide)[i])],
                    prs, <<>>)

(* edit_element.  properties has one entry per supported key, Absent for a   *)
(* key the dictionary does not hold.  float() of a str that is no number     *)
(* raises ValueError, which ends the edit with False after the assignments   *)
(* already made.                                                             *)
Absent == [t |-> "absent", n |-> 0, s |-> <<>>]
Properties(text, left, top, width, height, name) ==
    [text |-> text, left |-> left, top |-> top, width |-> width, height |-> height,
     name |-> name]
FloatOk(v) == v.t \in {"int", "float"}
\* the shape after the assignments edit_element makes, in its order
EditShape(shape, properties) ==
    LET s1 == IF properties.text # Absent /\ HasText(shape)
              THEN [shape EXCEPT !.Text = properties.text.s] ELSE shape
        ok2 == properties.left = Absent \/ FloatOk(properties.left)
        s2 == IF properties.left # Absent /\ ok2 THEN [s1 EXCEPT !.Left = properties.left.n] ELSE s1
        ok3 == ok2 /\ (properties.top = Absent \/ FloatOk(properties.top))
        s3 == IF properties.top # Absent /\ ok3 THEN [s2 EXCEPT !.Top = properties.top.n] ELSE s2
        ok4 == ok3 /\ (properties.width = Absent \/ FloatOk(properties.width))
        s4 == IF properties.width # Absent /\ ok4 THEN [s3 EXCEPT !.Width = properties.width.n] ELSE s3
        ok5 == ok4 /\ (properties.height = Absent \/ FloatOk(properties.height))
        s5 == IF properties.height # Absent /\ ok5 THEN [s4 EXCEPT !.Height = properties.height.n] ELSE s4
        s6 == IF properties.name # Absent /\ ok5 THEN [s5 EXCEPT !.Name = properties.name.s] ELSE s5
    IN  [shape |-> s6, ok |-> ok5]

edit_element(prs, identifier, slide_index, shape_identifier, properties) ==
    IF shape_identifier.t \notin {"int", "str"} THEN Return(FALSE, prs, <<>>)
    ELSE LET g == IF shape_identifier.t = "int"
                  THEN get_shape_by_id(prs, identifier, slide_index, shape_identifier.n)
                  ELSE get_shape_by_name(prs, identifier, slide_index, shape_identifier.s)
         IN  IF g.exc # NoExc THEN Raise(g.exc.raised, g.exc.msg, prs, <<>>)
             ELSE IF g.ret = 0 THEN Return(FALSE, prs, <<>>)
             ELSE LET e == EditShape(ShapesOf(prs, g.slide)[g.ret], properties)
                  IN  Return(e.ok,
                             [prs EXCEPT ![g.slide[1]].Slides[g.slide[2]].Shapes[g.ret] = e.shape],
                             <<>>)

----------------------------------------------------------------------------
(* mcp_powerpoint_server_win32.py: the tool layer *)

PptTools == {"list_open_presentations", "save_presentation", "add_slide", "add_text_box",
             "add_rectangle", "edit_element", "list_shapes", "find_shape_by_text",
             "find_shapes_by_type", "get_placeholder_shape"}

\* The names the module defines at its top level: a call of any other name
\* raises NameError when the call is reached
PptModuleNames == {"PLACEHOLDER_NAME_MAP", "SHAPE_TYPE_NAME_MAP", "PowerPointEditorWin32",
                   "editor", "mcp"} \cup PptTools

\* What the except clause of a tool does with the exception it caught: the
\* seven tools of lines 634-702 build the error payload themselves, the three
\* of lines 704-741 call `handler`
PptExcept(handler, error) ==
    IF handler = "inline"
    THEN [payload |-> [error |-> "Failed"], escaped |-> "none"]
    ELSE IF handler \in PptModuleNames
    THEN [payload |-> [error |-> "Error in tool"], escaped |-> "none"]
    ELSE [payload |-> <<>>, escaped |-> "NameError"]

PptAfter(call) ==
    /\ app' = call.conn.app
    /\ running' = call.conn.running
    /\ Presentations' = call.out.wbs
    /\ UNCHANGED <<server, editor, Workbooks, ScreenUpdating, DisplayAlerts, libVars>>

(* Inputs of the PowerPoint COM tool calls *)
\* <<identifier, slide_index>>: the slides of the first presentation, and
\* pairs that name no slide
GoodSlides == {<<PyInt(1), PyInt(1)>>, <<PyStr(<<"1">>), PyInt(2)>>}
BadSlides == {<<Unknown, PyInt(1)>>, <<PyInt(1), PyInt(0)>>, <<PyInt(1), PyInt(MaxSlides + 1)>>}
SlideCases == GoodSlides \cup BadSlides
\* the first slide, and one pair that names no slide
LookupCases == {<<PyInt(1), PyInt(1)>>, <<Unknown, PyInt(1)>>}
Texts == {<<>>, <<"A", "b">>}
PptSavePaths == {None, PyStr(<<"n", ".", "p", "p", "t", "x">>)}
\* <<shape_identifier, properties>> of the edits tried
FirstEdit == {<<PyInt(3), Properties(PyStr(<<"c">>), Absent, Absent, Absent, Absent, Absent)>>}
EditCases ==
    FirstEdit \cup
    {     <<PyInt(2), Properties(Absent, PyInt(5), Absent, Absent, Absent, PyStr(<<"n">>))>>,
     <<PyStr(<<"T", "e", "x", "t", "B", "o", "x", "_", "3">>),
       Properties(PyStr(<<"c">>), PyStr(<<"x">>), Absent, Absent, Absent, PyStr(<<"n">>))>>,
     <<PyInt(9), Properties(PyStr(<<"c">>), Absent, Absent, Absent, Absent, Absent)>>,
     <<PyFloat(2), Properties(PyStr(<<"c">>), Absent, Absent, Absent, Absent, Absent)>>}

\* The slide a tool call is about has room for one more shape
RoomForShape(identifier, slide_index) ==
    LET g == get_slide(Presentations, identifier, slide_index)
    IN  g.ret # <<0, 0>> => Len(ShapesOf(Presentations, g.ret)) < MaxShapes

\* A call of an editor method: _ensure_connection first, then the method body
\* on a live connection; out is the outcome of the method body on the open
\* presentations
PptCall(canLaunch, out) ==
    LET c == ppt_ensure_connection(app, running, canLaunch)
    IN  [conn |-> c,
         out |-> IF c.exc.raised # "none"
                 THEN [exc |-> c.exc, ret |-> None, wbs |-> Presentations, calls |-> <<>>]
                 ELSE out]

\* One PowerPoint COM tool call.  refused: the answer of a check the tool
\* makes before its try block, <<>> when it makes none or the check passes;
\* handler: what the except clause calls; success: the dictionary the tool
\* builds from the method's return value
PptTool(tool, args, refused, handler, out, success) ==
    /\ server = "ppt_com"
    /\ reply = NoReply
    /\ IF refused # <<>>
       THEN /\ reply' = [tool |-> tool, args |-> args, entered |-> FALSE,
                         exc |-> NoExc, ret |-> None, calls |-> <<>>, attempts |-> 0,
                         payload |-> refused, escaped |-> "none"]
            /\ UNCHANGED <<server, comVars, libVars>>
       ELSE \E canLaunch \in (IF app = "live" THEN {TRUE} ELSE BOOLEAN) :
                LET call == PptCall(canLaunch, out)
                    caught == PptExcept(handler, call.out.exc)
                IN  /\ reply' = [tool |-> tool, args |-> args, entered |-> TRUE,
                                 exc |-> call.out.exc, ret |-> call.out.ret,
                                 calls |-> call.out.calls, attempts |-> call.conn.attempts,
                                 payload |-> IF call.out.exc.raised = "none"
                                             THEN success ELSE caught.payload,
                                 escaped |-> IF call.out.exc.raised = "none"
                                             THEN "none" ELSE caught.escaped]
                    /\ PptAfter(call)

\* A direct call of an editor method that no tool exposes by itself
PptMethod(name, args, out) ==
    /\ server = "ppt_com"
    /\ reply = NoReply
    /\ \E canLaunch \in (IF app = "live" THEN {TRUE} ELSE BOOLEAN) :
           LET call == PptCall(canLaunch, out)
           IN  /\ reply' = [tool |-> name, args |-> args, entered |-> TRUE,
                            exc |-> call.out.exc, ret |-> call.out.ret,
                            calls |-> call.out.calls, attempts |-> call.conn.attempts,
                            payload |-> [direct |-> TRUE], escaped |-> call.out.exc.raised]
               /\ PptAfter(call)

tool_list_open_presentations ==
    \/ LET out == list_open_presentations(Presentations) IN
           PptTool("list_open_presentations", <<>>, <<>>, "inline", out,
                   [presentations |-> out.ret])
    \/ /\ server = "ppt_com"
       /\ reply = NoReply
       /\ \E canLaunch \in (IF app = "live" THEN {TRUE} ELSE BOOLEAN), again \in BOOLEAN :
              LET c == ppt_ensure_connection(app, running, canLaunch)
                  call == RpcUnavailable(c, _connect_or_launch_powerpoint(FALSE, again))
              IN  /\ c.exc.raised = "none"
                  /\ reply' = [tool |-> "list_open_presentations", args |-> <<>>,
                               entered |-> TRUE, exc |-> call.out.exc, ret |-> None,
                               calls |-> <<>>, attempts |-> call.conn.attempts,
                               payload |-> PptExcept("inline", call.out.exc).payload,
                               escaped |-> "none"]
                  /\ PptAfter(call)

tool_save_presentation ==
    \E identifier \in ToolIds, save_path \in PptSavePaths :
      LET out == save_presentation(Presentations, identifier, save_path) IN
        PptTool("save_presentation", <<identifier, save_path>>, <<>>, "inline", out,
                [message |-> "Save command issued"])

tool_add_slide ==
    \E c \in {<<PyInt(1), 1>>, <<PyStr(<<"1">>), 2>>, <<PyInt(1), CustomLayoutsCount + 1>>,
               <<Unknown, 1>>} :
      LET identifier == c[1]  layout_index == c[2]
          out == add_slide(Presentations, identifier, layout_index) IN
        /\ LET g == get_presentation(Presentations, identifier)
           IN  g.ret # 0 => Len(Presentations[g.ret].Slides) < MaxSlides
        /\ PptTool("add_slide", <<identifier, layout_index>>, <<>>, "inline", out,
                   [message |-> "Slide added successfully.", slide_index |-> out.ret])

tool_add_text_box ==
    \E c \in SlideCases, text \in Texts :
      LET identifier == c[1]  slide_index == c[2]
          out == add_text_box(Presentations, identifier, slide_index, text, 72, 72, 288, 72) IN
        /\ RoomForShape(identifier, slide_index)
        /\ PptTool("add_text_box", <<identifier, slide_index, text>>, <<>>, "inline", out,
                   [message |-> "Text box added successfully.", shape_id |-> out.ret])

tool_add_rectangle ==
    \E c \in SlideCases :
      LET identifier == c[1]  slide_index == c[2]
          out == add_shape(Presentations, identifier, slide_index, msoShapeRectangle,
                           72, 150, 144, 72) IN
        /\ RoomForShape(identifier, slide_index)
        /\ PptTool("add_rectangle", <<identifier, slide_index>>, <<>>, "inline", out,
                   [message |-> "Rectangle added successfully.", shape_id |-> out.ret])

tool_edit_element ==
    \E c \in {<<PyInt(1), PyInt(1), e>> : e \in EditCases}
             \cup {<<Unknown, PyInt(1), e>> : e \in FirstEdit}
             \cup {<<PyInt(1), PyInt(MaxSlides + 1), e>> : e \in FirstEdit} :
      LET identifier == c[1]  slide_index == c[2]
          shape_identifier == c[3][1]  properties == c[3][2]
          out == edit_element(Presentations, identifier, slide_index, shape_identifier,
                              properties) IN
        PptTool("edit_element", <<identifier, slide_index, shape_identifier, properties>>,
                <<>>, "inline", out,
                IF out.ret = TRUE THEN [message |-> "Element updated successfully."]
                ELSE [error |-> "Failed to update element."])

tool_list_shapes ==
    \E c \in LookupCases :
      LET identifier == c[1]  slide_index == c[2]
          out == list_shapes(Presentations, identifier, slide_index) IN
        PptTool("list_shapes", <<identifier, slide_index>>, <<>>, "inline", out,
                [shapes |-> out.ret])

tool_find_shape_by_text ==
    \E c \in LookupCases,
       q \in {<<<<"a">>, TRUE>>, <<<<"A", "B">>, FALSE>>, <<<<"z">>, TRUE>>} :
      LET identifier == c[1]  slide_index == c[2]  search_text == q[1]  partial_match == q[2]
          out == find_shape_by_text(Presentations, identifier, slide_index, search_text,
                                    partial_match) IN
        PptTool("find_shape_by_text", <<identifier, slide_index, search_text, partial_match>>,
                <<>>, "_handle_tool_error", out, [matches |-> out.ret])

tool_find_shapes_by_type ==
    \E c \in LookupCases,
       shape_type_name \in {<<"T", "e", "x", "t", "B", "o", "x">>,
                            <<"r", "e", "c", "t", "a", "n", "g", "l", "e">>,
                            <<"s", "t", "a", "r">>} :
      LET identifier == c[1]  slide_index == c[2]
          out == find_shapes_by_type(Presentations, identifier, slide_index,
                                     shape_type_name) IN
        PptTool("find_shapes_by_type", <<identifier, slide_index, shape_type_name>>,
                IF SHAPE_TYPE_NAME_MAP(lower(shape_type_name)) = None
                THEN [error |-> "Unsupported shape type name"] ELSE <<>>,
                "_handle_tool_error", out, [matches |-> out.ret])

tool_get_placeholder_shape ==
    \E c \in LookupCases,
       placeholder_name \in {<<"T", "i", "t", "l", "e">>, <<"b", "o", "d", "y">>, <<"z", "z">>} :
      LET identifier == c[1]  slide_index == c[2]
          out == get_placeholder_shape(Presentations, identifier, slide_index,
                                       placeholder_name) IN
        PptTool("get_placeholder_shape", <<identifier, slide_index, placeholder_name>>,
                IF PLACEHOLDER_NAME_MAP(lower(placeholder_name)) = None
                THEN [error |-> "Unsupported placeholder name"] ELSE <<>>,
                "_handle_tool_error", out,
                IF out.ret # None
                THEN [placeholder_found |-> TRUE, shape_info |-> out.ret]
                ELSE [placeholder_found |-> FALSE, message |-> "Placeholder not found"])

\* Direct calls of the two resolvers
call_get_presentation ==
    \E identifier \in DocumentIds(Presentations, MaxPresentations) :
        PptMethod("get_presentation", <<identifier>>,
                  [exc |-> get_presentation(Presentations, identifier).exc,
                   ret |-> get_presentation(Presentations, identifier).ret,
                   wbs |-> Presentations, calls |-> <<>>])

call_get_slide ==
    \E c \in {<<PyInt(1), k>> : k \in 0..(MaxSlides + 1)}
             \cup {<<Unknown, 1>>, <<PyStr(<<"1">>), 1>>} :
      LET identifier == c[1]  slide_index == c[2] IN
        PptMethod("get_slide", <<identifier, slide_index>>,
                  [exc |-> get_slide(Presentations, identifier, PyInt(slide_index)).exc,
                   ret |-> get_slide(Presentations, identifier, PyInt(slide_index)).ret,
                   wbs |-> Presentations, calls |-> <<>>])

----------------------------------------------------------------------------
(* mcp_powerpoint_server.py: class PowerPointContext (python-pptx)          *)
(* A presentation is [slides], a slide [layout, shapes], a shape            *)
(* [shape_id, placeholder, text]; the geometry of a shape is not tracked.   *)
(* The context is the record ctx of the five state variables of the server. *)

workspace_dir == <<"p">>
TitleAndContent == "Title and Content"
\* Path(path), made relative to the workspace unless absolute, as a string
ResolvePath(path) == IF IsAbs(path) THEN path ELSE workspace_dir \o <<Sep>> \o path

\* Presentation(): the default template has no slide
EmptyPresentation == [slides |-> <<>>]
\* f with key k set to v
Put(f, k, v) == [x \in DOMAIN f \cup {k} |-> IF x = k THEN v ELSE f[x]]

LibShape(shape_id, placeholder, text) ==
    [shape_id |-> shape_id, placeholder |-> placeholder, text |-> text]
\* python-pptx numbers a new shape one more than the largest id of the slide
NextLibShapeId(shapes) == Max({1} \cup {shapes[i].shape_id : i \in DOMAIN shapes}) + 1
\* add_slide clones the placeholders of the layout: two for either layout
LayoutPlaceholders == <<LibShape(2, TRUE, <<>>), LibShape(3, TRUE, <<>>)>>

LibRaise(type, msg, ctx) == [exc |-> Exc(type, msg), ret |-> None, ctx |-> ctx]
LibReturn(ret, ctx) == [exc |-> NoExc, ret |-> ret, ctx |-> ctx]

\* a get_presentation that reads the file again at every call
ctx_get_presentation_reload(ctx, path) ==
    LET path_str == ResolvePath(path)
        loaded == IF abspath(path_str) \in DOMAIN ctx.disk
                  THEN Put(ctx.presentations, path_str, ctx.disk[abspath(path_str)])
                  ELSE Put(ctx.presentations, path_str, EmptyPresentation)
    IN  [ctx |-> [ctx EXCEPT !.presentations = loaded,
                             !.current_presentation = PyStr(path_str)],
         path_str |-> path_str]

\* PowerPointContext.get_presentation: [ctx, path_str]
ctx_get_presentation(ctx, path) ==
    LET path_str == ResolvePath(path)
        loaded == IF path_str \in DOMAIN ctx.presentations THEN ctx.presentations
                  ELSE IF abspath(path_str) \in DOMAIN ctx.disk
                  THEN Put(ctx.presentations, path_str, ctx.disk[abspath(path_str)])
                  ELSE Put(ctx.presentations, path_str, EmptyPresentation)
    IN  [ctx |-> [ctx EXCEPT !.presentations = loaded,
                             !.current_presentation = PyStr(path_str)],
         path_str |-> path_str]

\* PowerPointContext.save_presentation
ctx_save_presentation(ctx, path) ==
    LET save_path == IF Truthy(path) THEN PyStr(ResolvePath(path.s))
                     ELSE ctx.current_presentation
    IN  IF Truthy(save_path) /\ save_path.s \in DOMAIN ctx.presentations
        THEN LibReturn(None, [ctx EXCEPT !.disk = Put(ctx.disk, abspath(save_path.s),
                                                      ctx.presentations[save_path.s])])
        ELSE LibReturn(None, ctx)

\* PowerPointContext.register_element: [ctx, element_id].  element_ids is the
\* set of its entries [path, slide, shape, id]; a new id is the next uuid.
ElementEntries(ctx, presentation_path, slide_index) ==
    {e \in ctx.element_ids : e.path = presentation_path /\ e.slide = slide_index}
register_element(ctx, presentation_path, slide_index, shape_id) ==
    LET known == {e \in ElementEntries(ctx, presentation_path, slide_index) : e.shape = shape_id}
        element_id == ctx.uuids + 1
    IN  IF known # {}
        THEN [ctx |-> ctx, element_id |-> (CHOOSE e \in known : TRUE).id]
        ELSE [ctx |-> [ctx EXCEPT !.uuids = element_id,
                                  !.element_ids = @ \cup {[path |-> presentation_path,
                                                           slide |-> slide_index,
                                                           shape |-> shape_id,
                                                           id |-> element_id]}],
              element_id |-> element_id]

\* sequence[index] of Python, 1-based position in the model: 0 is IndexError
PyIndex(n, index) ==
    IF 0 <= index /\ index < n THEN index + 1
    ELSE IF -n <= index /\ index < 0 THEN n + index + 1
    ELSE 0

\* PowerPointContext.get_shape_by_id: the position of the shape among the
\* shapes of the slide, 0 for None; every exception becomes None
ctx_get_shape_by_id(ctx, path_str, slide_index, element_id) ==
    LET slides == ctx.presentations[path_str].slides
        k == PyIndex(Len(slides), slide_index)
        entries == IF Truthy(ctx.current_presentation)
                   THEN ElementEntries(ctx, ctx.current_presentation.s, slide_index)
                   ELSE {}
        hit(i) == \E e \in entries : e.shape = slides[k].shapes[i].shape_id /\ e.id = element_id
    IN  IF slide_index >= Len(slides) \/ k = 0 \/ entries = {} THEN 0
        ELSE IF \E i \in DOMAIN slides[k].shapes : hit(i)
        THEN CHOOSE i \in DOMAIN slides[k].shapes :
                 hit(i) /\ \A j \in DOMAIN slides[k].shapes : hit(j) => i <= j
        ELSE 0

\* PowerPointContext.edit_element: it returns a dictionary in every case, an
\* {"error": ...} one for a bad slide index or an element it does not find
ctx_edit_element(ctx, presentation_path, slide_index, element_id, properties) ==
    LET g == ctx_get_presentation(ctx, presentation_path)
        slides == g.ctx.presentations[g.path_str].slides
        i == ctx_get_shape_by_id(g.ctx, g.path_str, slide_index, element_id)
        k == PyIndex(Len(slides), slide_index)
    IN  IF slide_index >= Len(slides)
        THEN LibReturn([error |-> "Invalid slide index"], g.ctx)
        ELSE IF i = 0
        THEN LibReturn([error |-> "Could not find element"], g.ctx)
        ELSE LET text == IF properties.text # Absent THEN properties.text.s
                         ELSE slides[k].shapes[i].text
                 edited == [g.ctx EXCEPT
                               !.presentations[g.path_str].slides[k].shapes[i].text = text]
             IN  LibReturn([message |-> "Element updated successfully",
                            properties |-> [text |-> text]],
                           ctx_save_presentation(edited, PyStr(presentation_path)).ctx)

\* an add_slide that returns the new number of slides
ctx_add_slide_returns_count(ctx, presentation_path, layout_name) ==
    LET g == ctx_get_presentation(ctx, presentation_path)
        slides == g.ctx.presentations[g.path_str].slides
        layout == IF layout_name = TitleAndContent THEN TitleAndContent ELSE "Title Slide"
    IN  LibReturn(Len(slides) + 1,
                  [g.ctx EXCEPT !.presentations[g.path_str].slides =
                       Append(slides, [layout |-> layout, shapes |-> LayoutPlaceholders])])

\* PowerPointContext.add_slide: the 0-based index of the new slide
ctx_add_slide(ctx, presentation_path, layout_name) ==
    LET g == ctx_get_presentation(ctx, presentation_path)
        slides == g.ctx.presentations[g.path_str].slides
        layout == IF layout_name = TitleAndContent THEN TitleAndContent ELSE "Title Slide"
    IN  LibReturn(Len(slides),
                  [g.ctx EXCEPT !.presentations[g.path_str].slides =
                       Append(slides, [layout |-> layout, shapes |-> LayoutPlaceholders])])

\* PowerPointContext.add_text: the element id of the new text box
ctx_add_text(ctx, presentation_path, slide_index, text) ==
    LET g == ctx_get_presentation(ctx, presentation_path)
        slides == g.ctx.presentations[g.path_str].slides
        k == PyIndex(Len(slides), slide_index)
    IN  IF k = 0 THEN LibRaise("IndexError", "slide index out of range", g.ctx)
        ELSE LET shape_id == NextLibShapeId(slides[k].shapes)
                 added == [g.ctx EXCEPT !.presentations[g.path_str].slides[k].shapes =
                               Append(@, LibShape(shape_id, FALSE, text))]
                 r == register_element(added, presentation_path, slide_index, shape_id)
             IN  LibReturn(r.element_id, r.ctx)

ctx_get_slide_count(ctx, presentation_path) ==
    LET g == ctx_get_presentation(ctx, presentation_path)
    IN  LibReturn(Len(g.ctx.presentations[g.path_str].slides), g.ctx)

\* s without its i-th element
RemoveAt(s, i) == SubSeq(s, 1, i - 1) \o SubSeq(s, i + 1, Len(s))

\* a delete_slide that removes the last slide whatever the index
ctx_delete_slide_last(ctx, presentation_path, slide_index) ==
    LET g == ctx_get_presentation(ctx, presentation_path)
        slides == g.ctx.presentations[g.path_str].slides
    IN  IF 0 <= slide_index /\ slide_index < Len(slides)
        THEN LibReturn(TRUE, [g.ctx EXCEPT !.presentations[g.path_str].slides =
                                               RemoveAt(slides, Len(slides))])
        ELSE LibReturn(FALSE, g.ctx)

\* PowerPointContext.delete_slide
ctx_delete_slide(ctx, presentation_path, slide_index) ==
    LET g == ctx_get_presentation(ctx, presentation_path)
        slides == g.ctx.presentations[g.path_str].slides
    IN  IF 0 <= slide_index /\ slide_index < Len(slides)
        THEN LibReturn(TRUE, [g.ctx EXCEPT !.presentations[g.path_str].slides =
                                               RemoveAt(slides, slide_index + 1)])
        ELSE LibReturn(FALSE, g.ctx)

----------------------------------------------------------------------------
(* mcp_powerpoint_server.py: the tool layer *)

LibTools == {"save_presentation", "add_slide", "delete_slide", "get_slide_count",
             "add_text", "edit_element"}

Context == [presentations |-> presentations, current_presentation |-> current_presentation,
            element_ids |-> element_ids, disk |-> disk, uuids |-> uuids]

\* One tool call of the document-library server: try the method, answer
\* the tool's dictionary, or {"error": str(e)} for any exception.  out is the
\* outcome of the context method, success the dictionary built from its
\* return value
LibTool(tool, args, out, success) ==
    /\ server = "ppt_lib"
    /\ reply = NoReply
    /\ reply' = [tool |-> tool, args |-> args, entered |-> TRUE,
                 exc |-> out.exc, ret |-> out.ret, calls |-> <<>>, attempts |-> 0,
                 payload |-> IF out.exc.raised # "none" THEN [error |-> out.exc.msg]
                             ELSE success,
                 escaped |-> "none"]
    /\ presentations' = out.ctx.presentations
    /\ current_presentation' = out.ctx.current_presentation
    /\ element_ids' = out.ctx.element_ids
    /\ disk' = out.ctx.disk
    /\ uuids' = out.ctx.uuids
    /\ UNCHANGED <<server, comVars>>

(* Inputs of the document-library tool calls *)
\* the same file by its path relative to the workspace and by its absolute path
LibPaths == {<<"a">>, abspath(ResolvePath(<<"a">>))}
LibTexts == {<<"t">>}
\* element ids: every id handed out so far and one never handed out
ElementIds == 0..MaxElements

lib_save_presentation ==
    \E presentation_path \in {None} \cup {PyStr(p) : p \in LibPaths} :
      LET out == ctx_save_presentation(Context, presentation_path) IN
        LibTool("save_presentation", <<presentation_path>>, out,
                [message |-> "Presentation saved successfully"])

lib_add_slide ==
    \E c \in {<<<<"a">>, TitleAndContent>>, <<abspath(ResolvePath(<<"a">>)), "No such layout">>} :
      LET presentation_path == c[1]  layout_name == c[2]
          out == ctx_add_slide(Context, presentation_path, layout_name) IN
        /\ Len(ctx_get_presentation(Context, presentation_path).ctx
                   .presentations[ResolvePath(presentation_path)].slides) < MaxSlides
        /\ LibTool("add_slide", <<presentation_path, layout_name>>, out,
                   [message |-> "Slide added successfully", slide_index |-> out.ret])

lib_delete_slide ==
    \E presentation_path \in LibPaths, slide_index \in (-1)..MaxSlides :
      LET out == ctx_delete_slide(Context, presentation_path, slide_index) IN
        LibTool("delete_slide", <<presentation_path, slide_index>>, out,
                [success |-> out.ret,
                 message |-> IF out.ret = TRUE THEN "Slide deleted successfully"
                             ELSE "Failed to delete slide"])

lib_get_slide_count ==
    \E presentation_path \in LibPaths :
      LET out == ctx_get_slide_count(Context, presentation_path) IN
        LibTool("get_slide_count", <<presentation_path>>, out, [count |-> out.ret])

lib_add_text ==
    \E presentation_path \in LibPaths, slide_index \in 0..MaxSlides, text \in LibTexts :
      LET out == ctx_add_text(Context, presentation_path, slide_index, text) IN
        /\ uuids < MaxElements
        /\ LibTool("add_text", <<presentation_path, slide_index, text>>, out,
                   [message |-> "Text added successfully", element_id |-> out.ret])

lib_edit_element ==
    \E presentation_path \in LibPaths, slide_index \in 0..MaxSlides, element_id \in ElementIds :
      LET properties == Properties(PyStr(<<"c">>), Absent, Absent, Absent, Absent, Absent)
          out == ctx_edit_element(Context, presentation_path, slide_index, element_id,
                                  properties) IN
        LibTool("edit_element", <<presentation_path, slide_index, element_id, properties>>,
                out,
                [message |-> "Element updated successfully", properties |-> out.ret])

----------------------------------------------------------------------------
(* The desktop application and its user *)

Book(name, path, readonly) ==
    [Name |-> name, Path |-> path, ReadOnly |-> readonly,
     Worksheets |-> <<Sheet(<<"S", "1">>)>>]
\* A new unsaved workbook, a saved one whose name is a number (file
\* extensions hidden), a saved one opened read-only
InitBooks == {Book(<<"B", "1">>, <<>>, FALSE),
              Book(<<"2">>, <<"/", "d">>, FALSE),
              Book(<<"A", ".", "x">>, <<"/", "d">>, TRUE)}

\* The sets of documents the user may have open: different documents, in any order
OpenSets(books, max) ==
    UNION {{d \in [1..n -> books] : \A i, j \in 1..n : i # j => d[i] # d[j]} : n \in 0..max}

\* The document-library server is not part of a run of a COM server
LibIdle ==
    /\ presentations = <<>>
    /\ current_presentation = None
    /\ element_ids = {}
    /\ disk = <<>>
    /\ uuids = 0

InitExcel ==
    /\ server = "excel"
    /\ LibIdle
    /\ Presentations = <<>>
    /\ ScreenUpdating = TRUE
    /\ DisplayAlerts = TRUE
    /\ reply = NoReply
    /\ \/ /\ editor = "ok" /\ app = "live" /\ running = TRUE
          /\ Workbooks \in OpenSets(InitBooks, MaxWorkbooks)
       \/ /\ editor \in {"ok", "None"} /\ app = "None" /\ running = FALSE
          /\ Workbooks = <<>>

\* A presentation with its first slide (title layout)
Deck(name, path) ==
    [Name |-> name, Path |-> path, Slides |-> <<[Shapes |-> LayoutShapes(1)]>>]
\* A new unsaved presentation, and a saved one whose name is a number (file
\* extensions hidden)
InitDecks == {Deck(<<"P", "1">>, <<>>), Deck(<<"2">>, <<"/", "d">>)}

InitPpt ==
    /\ server = "ppt_com"
    /\ LibIdle
    /\ editor = "ok"
    /\ Workbooks = <<>>
    /\ ScreenUpdating = TRUE
    /\ DisplayAlerts = TRUE
    /\ reply = NoReply
    /\ \/ /\ app = "live" /\ running = TRUE
          /\ Presentations \in OpenSets(InitDecks, MaxPresentations)
       \/ /\ app = "None" /\ running = FALSE
          /\ Presentations = <<>>

\* The application exits (the user closes it, or it crashes): its documents
\* are gone and a handle to it is stale.  ScreenUpdating and DisplayAlerts
\* are those of the next instance, which starts with both on.
AppQuits ==
    /\ server \in {"excel", "ppt_com"}
    /\ reply = NoReply
    /\ running
    /\ running' = FALSE
    /\ app' = IF app = "live" THEN "stale" ELSE app
    /\ Workbooks' = <<>>
    /\ Presentations' = <<>>
    /\ ScreenUpdating' = TRUE
    /\ DisplayAlerts' = TRUE
    /\ UNCHANGED <<server, editor, reply, libVars>>

\* The user, or a macro, switches Excel's screen updating or alerts
UserSetsOptions ==
    /\ server = "excel"
    /\ reply = NoReply
    /\ running
    /\ \E su \in BOOLEAN, da \in BOOLEAN :
           /\ <<su, da>> # <<ScreenUpdating, DisplayAlerts>>
           /\ ScreenUpdating' = su
           /\ DisplayAlerts' = da
    /\ UNCHANGED <<server, editor, app, running, Workbooks, Presentations, reply, libVars>>

\* The user starts the application and opens documents
UserStartsApp ==
    /\ server \in {"excel", "ppt_com"}
    /\ reply = NoReply
    /\ ~running
    /\ running' = TRUE
    /\ IF server = "excel"
       THEN /\ Workbooks' \in OpenSets(InitBooks, MaxWorkbooks)
            /\ UNCHANGED Presentations
       ELSE /\ Presentations' \in OpenSets(InitDecks, MaxPresentations)
            /\ UNCHANGED Workbooks
    /\ ScreenUpdating' = TRUE
    /\ DisplayAlerts' = TRUE
    /\ UNCHANGED <<server, editor, app, reply, libVars>>

\* The reply goes to the client and the server waits for the next call
Respond ==
    /\ reply # NoReply
    /\ reply' = NoReply
    /\ UNCHANGED <<server, comVars, libVars>>

NextExcel ==
    \/ tool_list_open_workbooks
    \/ tool_save_workbook
    \/ tool_list_worksheets
    \/ tool_add_worksheet
    \/ tool_get_cell_value
    \/ tool_set_cell_value
    \/ tool_get_range_values
    \/ tool_set_range_values
    \/ tool_find_used_ranges
    \/ tool_extract_string_cells
    \/ tool_get_cell_types_in_range
    \/ tool_analyze_label_value_patterns
    \/ call_get_workbook
    \/ call_get_worksheet
    \/ AppQuits
    \/ UserStartsApp
    \/ UserSetsOptions
    \/ Respond

SpecExcel == InitExcel /\ [][NextExcel]_vars

NextPpt ==
    \/ tool_list_open_presentations
    \/ tool_save_presentation
    \/ tool_add_slide
    \/ tool_add_text_box
    \/ tool_add_rectangle
    \/ tool_edit_element
    \/ tool_list_shapes
    \/ tool_find_shape_by_text
    \/ tool_find_shapes_by_type
    \/ tool_get_placeholder_shape
    \/ call_get_presentation
    \/ call_get_slide
    \/ AppQuits
    \/ UserStartsApp
    \/ Respond

SpecPpt == InitPpt /\ [][NextPpt]_vars

\* The document-library server starts with an empty cache; the workspace
\* holds no file, or a.pptx with one slide
InitLib ==
    /\ server = "ppt_lib"
    /\ editor = "ok" /\ app = "None" /\ running = FALSE
    /\ Workbooks = <<>> /\ Presentations = <<>>
    /\ ScreenUpdating = TRUE /\ DisplayAlerts = TRUE
    /\ reply = NoReply
    /\ presentations = <<>>
    /\ current_presentation = None
    /\ element_ids = {}
    /\ uuids = 0
    /\ disk \in {<<>>,
                 Put(<<>>, abspath(ResolvePath(<<"a">>)),
                     [slides |-> <<[layout |-> TitleAndContent, shapes |-> LayoutPlaceholders]>>])}

NextLib ==
    \/ lib_save_presentation
    \/ lib_add_slide
    \/ lib_delete_slide
    \/ lib_get_slide_count
    \/ lib_add_text
    \/ lib_edit_element
    \/ Respond

SpecLib == InitLib /\ [][NextLib]_vars

\* The two COM servers together, with the operations on whole documents
\* (listing, resolving, saving), for what is said of both
InitCom == InitExcel \/ InitPpt
NextCom ==
    \/ tool_list_open_workbooks
    \/ tool_save_workbook
    \/ call_get_workbook
    \/ tool_list_open_presentations
    \/ tool_save_presentation
    \/ call_get_presentation
    \/ AppQuits
    \/ UserStartsApp
    \/ Respond
SpecCom == InitCom /\ [][NextCom]_vars

\* The Excel server on one workbook whose sheet has a column of GridRows
\* cells, for what is said of the pattern analysis: text, blank text or a
\* number in the first two rows; below them, at the third row and at the
\* last row a first-row header sees, nothing, zero, a number (a float) or a
\* number of a cell in currency format (Range.Value hands it over as a
\* Decimal, see get_cell_value lines 315-317); at the two rows after those,
\* nothing or a number.
HeadRows == 1..2
DataRows == {3, HeaderScanRows}
FarRows == {HeaderScanRows + 1, HeaderScanRows + 2}
HeadValues == {None, PyStr(<<"t">>), PyStr(<<" ">>), PyFloat(2)}
DataValues == {None, PyFloat(0), PyFloat(2), PyDecimal(2)}
FarValues == {None, PyFloat(2)}
Column(h, d, f) ==
    [r \in 1..GridRows |->
        IF r \in HeadRows THEN h[r]
        ELSE IF r \in DataRows THEN d[r]
        ELSE IF r \in FarRows THEN f[r]
        ELSE None]
Columns ==
    {[a \in {CellAt(r, 1) : r \in 1..GridRows} |-> Column(h, d, f)[RowOf(a)]] :
        h \in [HeadRows -> HeadValues], d \in [DataRows -> DataValues],
        f \in [FarRows -> FarValues]}

InitPatterns ==
    /\ server = "excel"
    /\ LibIdle
    /\ Presentations = <<>>
    /\ ScreenUpdating = TRUE
    /\ DisplayAlerts = TRUE
    /\ reply = NoReply
    /\ editor = "ok" /\ app = "live" /\ running = TRUE
    /\ \E cells \in Columns :
           Workbooks = <<[Name |-> <<"B", "1">>, Path |-> <<>>, ReadOnly |-> FALSE,
                          Worksheets |-> <<[Name |-> <<"S", "1">>, Cells |-> cells]>>]>>
NextPatterns ==
    \/ tool_extract_string_cells
    \/ tool_analyze_label_value_patterns
    \/ Respond
SpecPatterns == InitPatterns /\ [][NextPatterns]_vars

----------------------------------------------------------------------------
(* Properties of the Excel server *)

ExcelAnswered == server = "excel" /\ reply # NoReply /\ reply.tool \in ExcelTools
\* the call failed with an exception, or before the editor was reached
ExcelRaised == ~reply.entered \/ reply.exc.raised # "none"
SheetTools == ExcelTools \ {"list_open_workbooks", "save_workbook", "list_worksheets",
                            "add_worksheet"}
\* the call reached the workbooks and its identifier names none of them
NamesNoWorkbook ==
    /\ reply.tool # "list_open_workbooks"
    /\ reply.entered
    /\ reply.exc.raised # "ConnectionError"
    /\ get_workbook(Workbooks, reply.args[1]).ret = 0
\* the call reached the workbooks and its identifiers name no worksheet
NamesNoWorksheet ==
    /\ reply.tool \in SheetTools
    /\ reply.entered
    /\ reply.exc.raised # "ConnectionError"
    /\ get_worksheet(Workbooks, reply.args[1], reply.args[2]) = <<0, 0>>

\* C1 as stated: every Excel tool answers a failure (editor not initialized,
\* exception in the editor, workbook or worksheet not found) with a dictionary
\* whose only key is "error", and a success with one that has no "error" key.
C1_ErrorPayloadOnEveryFailure ==
    ExcelAnswered =>
        IF ExcelRaised \/ NamesNoWorkbook \/ NamesNoWorksheet
        THEN DOMAIN reply.payload = {"error"}
        ELSE "error" \notin DOMAIN reply.payload

\* What the tools do keep of C1: no exception leaves an Excel tool; the
\* payload's only key is "error" exactly when the editor is not initialized or
\* the editor method raised, which it does for a worksheet that is not found
\* and, in every tool but list_worksheets, for a workbook that is not found;
\* list_worksheets answers {"worksheets": []} for a workbook that is not found.
C1_ErrorPayloadOnEveryException ==
    ExcelAnswered =>
        /\ reply.escaped = "none"
        /\ IF ExcelRaised
           THEN DOMAIN reply.payload = {"error"}
           ELSE "error" \notin DOMAIN reply.payload
        /\ NamesNoWorksheet => ExcelRaised
        /\ NamesNoWorkbook =>
               \/ ExcelRaised
               \/ reply.tool = "list_worksheets" /\ reply.payload = [worksheets |-> <<>>]

C1_ComErrorAnswered ==
    /\ ExcelAnswered
    /\ reply.tool = "save_workbook"
    /\ reply.exc.raised = "com_error"
    /\ DOMAIN reply.payload = {"error"}

\* C5: get_workbook given an integer or an all-digit string i returns the
\* i-th open workbook when 1 <= i <= Workbooks.Count, and for any other i
\* returns None, raises nothing and reads no workbook.
C5_WorkbookByPosition ==
    (/\ server = "excel"
     /\ reply.tool = "get_workbook"
     /\ reply.exc.raised # "ConnectionError"
     /\ \/ reply.args[1].t = "int"
        \/ reply.args[1].t = "str" /\ isdigit(reply.args[1].s))
    => LET i == IF reply.args[1].t = "int" THEN reply.args[1].n ELSE int(reply.args[1].s)
       IN  /\ reply.escaped = "none"
           /\ IF 1 <= i /\ i <= Len(Workbooks)
              THEN reply.ret.ret = i
              ELSE reply.ret.ret = 0 /\ reply.ret.touched = {}

C5_DigitStringPastTheEnd ==
    /\ server = "excel"
    /\ reply.tool = "get_workbook"
    /\ reply.exc.raised = "none"
    /\ Len(Workbooks) = MaxWorkbooks
    /\ reply.args[1] = PyStr(<<Digits[MaxWorkbooks + 2]>>)
    /\ reply.ret.ret = 0

\* C6: once the workbook resolves, get_worksheet returns the sheet at integer
\* position i for 1 <= i <= Worksheets.Count and the sheet of the given name,
\* and None, raising nothing, for a position out of range, an unknown name
\* or an identifier of another type; every cell and range operation then
\* raises ValueError "Worksheet ... not found" and changes no workbook.
C6_WorksheetByPositionOrName ==
    [][/\ (/\ server = "excel"
           /\ reply'.tool = "get_worksheet"
           /\ reply'.exc.raised # "ConnectionError"
           /\ get_workbook(Workbooks', reply'.args[1]).ret # 0)
          => LET w == get_workbook(Workbooks', reply'.args[1]).ret
                 sheets == Workbooks'[w].Worksheets
                 id == reply'.args[2]
             IN  /\ reply'.escaped = "none"
                 /\ id.t = "int" =>
                        reply'.ret = IF 1 <= id.n /\ id.n <= Len(sheets)
                                     THEN <<w, id.n>> ELSE <<0, 0>>
                 /\ id.t = "str" =>
                        /\ \A k \in DOMAIN sheets : sheets[k].Name = id.s => reply'.ret = <<w, k>>
                        /\ (\A k \in DOMAIN sheets : lower(sheets[k].Name) # lower(id.s))
                               => reply'.ret = <<0, 0>>
                 /\ id.t \notin {"int", "str"} => reply'.ret = <<0, 0>>
       /\ (/\ server = "excel"
           /\ reply = NoReply
           /\ reply'.tool \in SheetTools
           /\ reply'.entered
           /\ reply'.exc.raised # "ConnectionError"
           /\ get_worksheet(Workbooks, reply'.args[1], reply'.args[2]) = <<0, 0>>)
          => /\ reply'.exc = Exc("ValueError", WorksheetNotFound)
             /\ Workbooks' = Workbooks]_vars

C6_WriteToMissingSheetRefused ==
    /\ server = "excel"
    /\ reply.tool = "set_range_values"
    /\ reply.args[2] = PyInt(MaxSheets + 1)
    /\ reply.exc = Exc("ValueError", WorksheetNotFound)

\* C8: for every value v written by set_cell_value to a cell of an existing
\* worksheet, get_cell_value on the same workbook, worksheet and cell right
\* after it returns v (Python equality).
C8_CellReadsBackWhatWasWritten ==
    [][(/\ server = "excel"
        /\ reply = NoReply
        /\ reply'.tool = "set_cell_value"
        /\ reply'.entered
        /\ reply'.exc.raised = "none")
       => LET a == reply'.args
              read == get_cell_value(Workbooks', a[1], a[2], a[3])
          IN  read.exc.raised = "none" /\ PyEq(read.ret, a[4])]_vars

----------------------------------------------------------------------------
(* Properties of the PowerPoint COM server *)

\* C2: every tool of the PowerPoint COM server catches every exception raised
\* while it serves a call and answers a payload with an "error" key; no
\* exception leaves a tool call.
C2_NoExceptionLeavesAPowerPointTool ==
    (/\ server = "ppt_com"
     /\ reply # NoReply
     /\ reply.tool \in PptTools)
    => /\ reply.escaped = "none"
       /\ reply.exc.raised # "none" => "error" \in DOMAIN reply.payload

\* the slide a call names exists: the presentation resolves and the index is
\* one of its slides
SlideResolves(prs, identifier, slide_index) ==
    LET p == get_presentation(prs, identifier).ret
    IN  p # 0 /\ 1 <= slide_index /\ slide_index <= Len(prs[p].Slides)

\* C7: get_slide returns the slide exactly when the presentation resolves and
\* 1 <= slide_index <= Slides.Count, and None otherwise; add_text_box and
\* add_shape on a slide that does not resolve raise ValueError and add no
\* shape to any slide.
C7_SlideByIndex ==
    [][/\ (/\ server = "ppt_com"
           /\ reply'.tool = "get_slide"
           /\ reply'.exc.raised # "ConnectionError")
          => /\ reply'.escaped = "none"
             /\ reply'.ret =
                    IF SlideResolves(Presentations', reply'.args[1], reply'.args[2])
                    THEN <<get_presentation(Presentations', reply'.args[1]).ret, reply'.args[2]>>
                    ELSE <<0, 0>>
       /\ (/\ server = "ppt_com"
           /\ reply = NoReply
           /\ reply'.tool \in {"add_text_box", "add_rectangle"}
           /\ reply'.exc.raised # "ConnectionError"
           /\ ~SlideResolves(Presentations, reply'.args[1], reply'.args[2].n))
          => /\ reply'.exc.raised = "ValueError"
             /\ Presentations' = Presentations]_vars

C7_TextBoxOnMissingSlideRefused ==
    /\ server = "ppt_com"
    /\ reply.tool = "add_text_box"
    /\ reply.args[1] = PyInt(1)
    /\ reply.args[2] = PyInt(MaxSlides + 1)
    /\ reply.exc.raised = "ValueError"

----------------------------------------------------------------------------
(* Properties of the two COM servers *)

\* what a direct call of get_workbook / get_presentation returned: the
\* position of the document, 0 for None
ResolvedDocument == IF reply.tool = "get_workbook" THEN reply.ret.ret ELSE reply.ret
OpenDocuments == IF server = "excel" THEN Workbooks ELSE Presentations

\* C4: every open workbook and every open presentation is resolved by
\* get_workbook / get_presentation from its own name and from its own full
\* path, whatever the name is, and each listed 1-based index resolves to the
\* document at that position; an identifier that matches no open document
\* resolves to None.
C4_DocumentByNamePathOrIndex ==
    (/\ server \in {"excel", "ppt_com"}
     /\ reply.tool \in {"get_workbook", "get_presentation"}
     /\ reply.args[1].t \in {"int", "str"}
     /\ reply.exc.raised # "ConnectionError")
    => LET docs == OpenDocuments
           id == reply.args[1]
       IN  /\ reply.exc.raised = "none"
           /\ \A i \in DOMAIN docs :
                  /\ id = PyStr(docs[i].Name) => ResolvedDocument = i
                  /\ (docs[i].Path # <<>> /\ id = PyStr(FullName(docs[i])))
                         => ResolvedDocument = i
                  /\ id = PyInt(i) => ResolvedDocument = i
           /\ (/\ id.t = "str"
               /\ ~isdigit(id.s)
               /\ \A i \in DOMAIN docs : /\ lower(docs[i].Name) # lower(id.s)
                                         /\ lower(FullName(docs[i])) # lower(id.s))
              => ResolvedDocument = 0

\* C10: save_workbook and the COM save_presentation called without save_path
\* on a document that has no path raise ValueError and issue neither Save nor
\* SaveAs; called with an identifier that resolves to no document they raise
\* ValueError and save nothing; with a document that has a path and no
\* save_path they issue Save on that document only.
C10_SaveNeedsAPath ==
    [][(/\ server \in {"excel", "ppt_com"}
        /\ reply = NoReply
        /\ reply'.tool \in {"save_workbook", "save_presentation"}
        /\ reply'.entered
        /\ reply'.exc.raised # "ConnectionError")
       => LET docs == OpenDocuments
              d == IF server = "excel" THEN get_workbook(docs, reply'.args[1]).ret
                   ELSE get_presentation(docs, reply'.args[1]).ret
              unchanged == Workbooks' = Workbooks /\ Presentations' = Presentations
          IN  /\ d = 0 =>
                     /\ reply'.exc.raised = "ValueError"
                     /\ reply'.calls = <<>>
                     /\ unchanged
              /\ (d # 0 /\ reply'.args[2] = None /\ docs[d].Path = <<>>) =>
                     /\ reply'.exc.raised = "ValueError"
                     /\ reply'.calls = <<>>
                     /\ unchanged
              /\ (d # 0 /\ reply'.args[2] = None /\ docs[d].Path # <<>>) =>
                     reply'.calls = <<[op |-> "Save", doc |-> d]>>]_vars

C10_UnsavedPresentationRefused ==
    /\ server = "ppt_com"
    /\ reply.tool = "save_presentation"
    /\ reply.args[2] = None
    /\ get_presentation(Presentations, reply.args[1]).ret # 0
    /\ reply.exc = Exc("ValueError", "save_path is required for a new presentation.")
    /\ reply.calls = <<>>

----------------------------------------------------------------------------
(* Properties of the document-library server *)

\* C3: when the edit_element tool of the document-library server is called
\* with an element id that is not registered or with a slide index past the
\* last slide, its result carries a top-level "error" key and no "Element
\* updated successfully" message.
C3_EditElementFailureIsAnError ==
    (/\ server = "ppt_lib"
     /\ reply.tool = "edit_element"
     /\ \/ \A e \in element_ids : e.id # reply.args[3]
        \/ reply.args[2] >= Len(presentations[ResolvePath(reply.args[1])].slides))
    => /\ "error" \in DOMAIN reply.payload
       /\ "message" \notin DOMAIN reply.payload

\* the cache key of the path a document-library tool call names
LibKey(args) == ResolvePath(args[1])
\* what get_presentation loads for a key that is not cached
FreshlyLoaded(key) == IF abspath(key) \in DOMAIN disk THEN disk[abspath(key)] ELSE EmptyPresentation

\* C11: the document-library server holds each loaded presentation in memory
\* between calls: no tool call removes an entry of the presentations cache or
\* changes the entry of a path it does not name; a call naming a cached path
\* works on the cached tree, not on the file: get_slide_count reports the
\* cached number of slides and leaves the tree as it is, add_slide appends to
\* the cached slides, delete_slide removes one of them, add_text and
\* edit_element keep their number.
C11_CacheKeptBetweenCalls ==
    [][(server = "ppt_lib" /\ reply = NoReply /\ reply' # NoReply)
       => /\ DOMAIN presentations \subseteq DOMAIN presentations'
          /\ reply'.tool = "save_presentation" => presentations' = presentations
          /\ reply'.tool # "save_presentation" =>
                 LET key == LibKey(reply'.args)
                 IN  /\ \A k \in DOMAIN presentations :
                            k # key => presentations'[k] = presentations[k]
                     /\ key \in DOMAIN presentations =>
                            LET old == presentations[key].slides
                                new == presentations'[key].slides
                            IN  CASE reply'.tool = "get_slide_count" ->
                                         new = old /\ reply'.ret = Len(old)
                                  [] reply'.tool = "add_slide" ->
                                         Len(new) = Len(old) + 1 /\ SubSeq(new, 1, Len(old)) = old
                                  [] reply'.tool = "delete_slide" ->
                                         \/ new = old
                                         \/ \E i \in DOMAIN old : new = RemoveAt(old, i)
                                  [] OTHER -> Len(new) = Len(old)]_vars

\* a count is answered from a cached tree with slides that no file holds
C11_UnsavedEditsCounted ==
    /\ server = "ppt_lib"
    /\ reply.tool = "get_slide_count"
    /\ LET key == LibKey(reply.args)
       IN  /\ presentations[key] # FreshlyLoaded(key)
           /\ reply.ret = Len(presentations[key].slides)
           /\ reply.ret > Len(FreshlyLoaded(key).slides)

\* C12: the save_presentation tool saves the current presentation: whenever
\* it answers "Presentation saved successfully" there is a current
\* presentation and a file has been written with its tree, at its own path
\* when no path is given and at the given path, resolved against the
\* workspace, otherwise.
C12_SaveWritesCurrentPresentation ==
    [][(/\ server = "ppt_lib"
        /\ reply = NoReply
        /\ reply'.tool = "save_presentation"
        /\ reply'.payload = [message |-> "Presentation saved successfully"])
       => /\ Truthy(current_presentation)
          /\ LET target == IF Truthy(reply'.args[1])
                           THEN abspath(ResolvePath(reply'.args[1].s))
                           ELSE abspath(current_presentation.s)
             IN  /\ target \in DOMAIN disk'
                 /\ disk'[target] = presentations[current_presentation.s]]_vars

\* C13: an element id that add_text returned for presentation path p and
\* slide index i identifies that element in a later edit_element(p, i, id,
\* properties): while the slide still holds the shape, the edit finds it and
\* applies the text to it instead of reporting the element as not found, for
\* a workspace-relative and for an absolute p.
C13_ElementIdFindsItsShape ==
    [][(/\ server = "ppt_lib"
        /\ reply = NoReply
        /\ reply'.tool = "edit_element")
       => LET key == LibKey(reply'.args)
              k == reply'.args[2] + 1
          IN  \A e \in element_ids :
                  (/\ e.path = reply'.args[1]
                   /\ e.slide = reply'.args[2]
                   /\ e.id = reply'.args[3]
                   /\ key \in DOMAIN presentations
                   /\ k \in DOMAIN presentations[key].slides
                   /\ \E i \in DOMAIN presentations[key].slides[k].shapes :
                          presentations[key].slides[k].shapes[i].shape_id = e.shape)
                  => /\ "message" \in DOMAIN reply'.ret
                     /\ \E i \in DOMAIN presentations'[key].slides[k].shapes :
                            /\ presentations'[key].slides[k].shapes[i].shape_id = e.shape
                            /\ presentations'[key].slides[k].shapes[i].text =
                                   reply'.args[4].text.s]_vars

\* the tree a document-library call naming this key starts from
TreeBefore(key) == IF key \in DOMAIN presentations THEN presentations[key] ELSE FreshlyLoaded(key)

\* C14: the document-library add_slide raises nothing, leaves exactly one
\* slide more than before, returns the 0-based index of the new slide (the new
\* count minus 1) and keeps the existing slides at their indices; the new
\* slide has the layout of the given name, and the first layout when no layout
\* has that name.
C14_AddSlideAppends ==
    [][(/\ server = "ppt_lib"
        /\ reply = NoReply
        /\ reply'.tool = "add_slide")
       => LET key == LibKey(reply'.args)
              old == TreeBefore(key).slides
              new == presentations'[key].slides
          IN  /\ reply'.exc = NoExc
              /\ Len(new) = Len(old) + 1
              /\ reply'.ret = Len(new) - 1
              /\ \A i \in DOMAIN old : new[i] = old[i]
              /\ new[Len(new)].layout = IF reply'.args[2] = TitleAndContent
                                        THEN TitleAndContent ELSE "Title Slide"
              /\ reply'.payload = [message |-> "Slide added successfully",
                                   slide_index |-> Len(old)]]_vars

\* a second slide was added under a layout name that no layout has
C14_UnknownLayoutFallsBack ==
    /\ server = "ppt_lib"
    /\ reply.tool = "add_slide"
    /\ reply.args[2] # TitleAndContent
    /\ reply.ret = 1
    /\ Len(presentations[LibKey(reply.args)].slides) = 2
    /\ presentations[LibKey(reply.args)].slides[2].layout = "Title Slide"

\* C15: the document-library delete_slide with 0 <= slide_index < slide
\* count removes exactly that slide, so that the count drops by one and the
\* other slides keep their order, and returns True; with a negative or a
\* too large slide_index it returns False and leaves the presentation as it
\* was.  The tool reports the result under "success".
C15_DeleteSlideRemovesThatSlide ==
    [][(/\ server = "ppt_lib"
        /\ reply = NoReply
        /\ reply'.tool = "delete_slide")
       => LET key == LibKey(reply'.args)
              old == TreeBefore(key).slides
              new == presentations'[key].slides
              i == reply'.args[2]
          IN  /\ reply'.exc = NoExc
              /\ reply'.payload.success = reply'.ret
              /\ IF 0 <= i /\ i < Len(old)
                 THEN /\ reply'.ret = TRUE
                      /\ Len(new) = Len(old) - 1
                      /\ \A j \in 1..Len(new) : new[j] = IF j <= i THEN old[j] ELSE old[j + 1]
                 ELSE /\ reply'.ret = FALSE
                      /\ presentations'[key] = TreeBefore(key)]_vars

\* the first of two different slides was deleted and the other one is left
C15_FirstOfTwoDeleted ==
    /\ server = "ppt_lib"
    /\ reply.tool = "delete_slide"
    /\ reply.args[2] = 0
    /\ reply.ret = TRUE
    /\ Len(presentations[LibKey(reply.args)].slides) = 1
    /\ presentations[LibKey(reply.args)].slides[1].layout = "Title Slide"

----------------------------------------------------------------------------
(* Further properties of the PowerPoint COM server *)

\* the shape an edit_element call with these arguments is about: [slide, ret],
\* ret = 0 when there is none
EditedShape(args) ==
    IF args[3].t = "int" THEN get_shape_by_id(Presentations, args[1], args[2], args[3].n)
    ELSE IF args[3].t = "str" THEN get_shape_by_name(Presentations, args[1], args[2], args[3].s)
    ELSE [exc |-> NoExc, ret |-> 0, slide |-> <<0, 0>>]

\* C16: the COM edit_element returns True only when the shape was found and
\* every supported property present in properties (text, left, top, width,
\* height, name) has been applied to it, so that after a True result with
\* 'text' in properties the text of the shape is the given text; it returns
\* False when the shape is not found.
C16_TrueMeansEveryPropertyApplied ==
    [][(/\ server = "ppt_com"
        /\ reply = NoReply
        /\ reply'.tool = "edit_element"
        /\ reply'.exc = NoExc)
       => LET g == EditedShape(reply'.args)
              properties == reply'.args[4]
          IN  /\ g.ret = 0 => reply'.ret = FALSE
              /\ reply'.ret = TRUE =>
                     /\ g.ret # 0
                     /\ LET shape == ShapesOf(Presentations', g.slide)[g.ret]
                        IN  /\ properties.text # Absent => shape.Text = properties.text.s
                            /\ properties.left # Absent => shape.Left = properties.left.n
                            /\ properties.top # Absent => shape.Top = properties.top.n
                            /\ properties.width # Absent => shape.Width = properties.width.n
                            /\ properties.height # Absent => shape.Height = properties.height.n
                            /\ properties.name # Absent => shape.Name = properties.name.s]_vars

----------------------------------------------------------------------------
(* Properties of the connection handling of the two COM servers *)

ComCallServed ==
    /\ server \in {"excel", "ppt_com"}
    /\ reply = NoReply
    /\ reply' # NoReply
    /\ reply'.entered
\* _ensure_connection of the server that runs, on the state of the moment
EnsureConnection(canLaunch) ==
    IF server = "excel" THEN _ensure_connection(app, running, canLaunch)
    ELSE ppt_ensure_connection(app, running, canLaunch)
\* the application exited while its documents were listed
RpcLost(r) == r.exc.msg = "RPC server is unavailable"

\* C17: _ensure_connection of both COM editors returns normally only with the
\* application handle set, and raises ConnectionError when no handle can be
\* acquired, at the first attempt or after a failed version probe; a call
\* that met the ConnectionError made no COM call, returned nothing and left
\* the documents alone, and a call whose operation ran had a handle.
C17_NoOperationWithoutHandle ==
    [][ComCallServed =>
        /\ \A canLaunch \in BOOLEAN :
               LET c == EnsureConnection(canLaunch)
               IN  /\ c.exc.raised \in {"none", "ConnectionError"}
                   /\ c.exc.raised = "none" <=> c.app # "None"
        /\ reply'.exc.raised = "ConnectionError" =>
               /\ app' = "None"
               /\ reply'.ret = None
               /\ reply'.calls = <<>>
               /\ UNCHANGED <<Workbooks, Presentations>>
        /\ (reply'.exc.raised # "ConnectionError" /\ ~RpcLost(reply')) => app' = "live"]_vars
\* a call that found the handle stale and could not reconnect
C17_ReconnectFailed ==
    /\ reply # NoReply
    /\ reply.entered
    /\ reply.exc = Exc("ConnectionError", "Could not reconnect to Excel.")
    /\ app = "None"

\* C18 as stated: while serving one tool call the COM editors make at most
\* one attempt to connect to or launch the application, and they never retry
\* the failed operation itself.
C18_AtMostOneAttemptPerCall ==
    [][ComCallServed =>
        /\ reply'.attempts <= 1
        /\ reply'.exc.raised # "none" => Len(reply'.calls) <= 1]_vars

\* C18 as the code has it: every failure detected (a missing or unresponsive
\* handle at the start of the call, the application gone while the documents
\* are listed) is answered by exactly one attempt to connect or launch, so
\* that one call makes two attempts when both happen; the failed operation
\* is never retried: its exception is raised on and no COM call is repeated.
C18_OneAttemptPerFailure ==
    [][ComCallServed =>
        /\ reply'.attempts = (IF app # "live" THEN 1 ELSE 0)
                               + (IF RpcLost(reply') THEN 1 ELSE 0)
        /\ reply'.exc.raised # "none" => Len(reply'.calls) <= 1
        /\ RpcLost(reply') =>
               /\ reply'.exc.raised = "com_error"
               /\ reply'.ret = None
               /\ DOMAIN reply'.payload = {"error"}]_vars
\* a call that reconnected at its start and again when the listing failed
C18_TwoAttempts ==
    /\ reply # NoReply
    /\ reply.attempts = 2
    /\ RpcLost(reply)

----------------------------------------------------------------------------
(* Further properties of the Excel server *)

PerformanceTools == {"save_workbook", "add_worksheet", "set_range_values",
                     "analyze_label_value_patterns"}
PerformanceCallServed ==
    /\ server = "excel"
    /\ reply = NoReply
    /\ reply' # NoReply
    /\ reply'.tool \in PerformanceTools

\* C19 as stated: every operation run under _performance_mode (save_workbook,
\* add_worksheet, set_range_values, analyze_label_value_patterns) ends, by
\* returning or by raising, with ScreenUpdating and DisplayAlerts equal to the
\* values they had when the operation started.
C19_SettingsAsBeforeTheCall ==
    [][PerformanceCallServed => UNCHANGED <<ScreenUpdating, DisplayAlerts>>]_vars

\* C19 as the code has it: when the operation ends, by returning or by
\* raising, ScreenUpdating and DisplayAlerts equal the values they had when
\* the block under _performance_mode was entered.  Those are the values of
\* before the call, but for DisplayAlerts in a call whose _ensure_connection
\* had to connect first: connecting switches the alerts on.
C19_PerformanceModeRestores ==
    [][PerformanceCallServed =>
        /\ ScreenUpdating' = ScreenUpdating
        /\ DisplayAlerts' = IF reply'.attempts > 0 /\ app' = "live"
                            THEN TRUE ELSE DisplayAlerts
        /\ app = "live" => UNCHANGED <<ScreenUpdating, DisplayAlerts>>]_vars
\* an operation that raised inside the block, with the alerts off and the
\* screen updating on as the user had them
C19_RestoredAfterRaise ==
    /\ server = "excel"
    /\ reply # NoReply
    /\ reply.tool \in PerformanceTools
    /\ reply.exc.raised = "com_error"
    /\ reply.attempts = 0
    /\ ScreenUpdating
    /\ ~DisplayAlerts

\* the call handed a SaveAs to Excel
SavedAs ==
    /\ server = "excel"
    /\ reply # NoReply
    /\ reply.tool = "save_workbook"
    /\ reply.calls # <<>>
    /\ reply.calls[1].op = "SaveAs"
Ext(x) == <<".">> \o x

\* C20 as stated: save_workbook with a save_path takes the SaveAs file format
\* from the extension of the path, compared without regard to case (.xlsx ->
\* 51, .xlsm -> 52, .xlsb -> 50, .xls -> 56), and uses the xlsx format (51)
\* for every other extension.
C20_FormatFromExtension ==
    SavedAs =>
        LET p == lower(reply.calls[1].path)
        IN  reply.calls[1].format =
                PyInt(IF endswith(p, Ext(<<"x", "l", "s", "x">>)) THEN 51
                      ELSE IF endswith(p, Ext(<<"x", "l", "s", "m">>)) THEN 52
                      ELSE IF endswith(p, Ext(<<"x", "l", "s", "b">>)) THEN 50
                      ELSE IF endswith(p, Ext(<<"x", "l", "s">>)) THEN 56
                      ELSE 51)

\* What save_workbook does keep of C20: the four extensions give their
\* formats in either case, and any other path gives None, not a format.
C20_KnownExtensions ==
    /\ \A stem \in {<<"n">>, <<"/", "d", "/", "N">>} :
           /\ FileFormatFor(stem \o Ext(<<"x", "l", "s", "x">>)) = PyInt(51)
           /\ FileFormatFor(stem \o Ext(<<"X", "L", "S", "X">>)) = PyInt(51)
           /\ FileFormatFor(stem \o Ext(<<"x", "l", "s", "m">>)) = PyInt(52)
           /\ FileFormatFor(stem \o Ext(<<"X", "l", "S", "m">>)) = PyInt(52)
           /\ FileFormatFor(stem \o Ext(<<"x", "l", "s", "b">>)) = PyInt(50)
           /\ FileFormatFor(stem \o Ext(<<"X", "L", "S", "B">>)) = PyInt(50)
           /\ FileFormatFor(stem \o Ext(<<"x", "l", "s">>)) = PyInt(56)
           /\ FileFormatFor(stem \o Ext(<<"X", "L", "S">>)) = PyInt(56)
           /\ FileFormatFor(stem \o Ext(<<"t">>)) = None
           /\ FileFormatFor(stem) = None
    /\ SavedAs => reply.calls[1].format = FileFormatFor(reply.calls[1].path)

----------------------------------------------------------------------------
(* Properties of the pattern analysis *)

\* the sheet an answered analysis looked at
AnalysisAnswered ==
    /\ server = "excel"
    /\ reply # NoReply
    /\ reply.tool = "analyze_label_value_patterns"
    /\ reply.entered
    /\ reply.exc.raised = "none"
AnalysedCells == CellsOf(Workbooks, get_worksheet(Workbooks, reply.args[1], reply.args[2]))
\* the rows of the text cells: those extract_string_cells returns
TextRows(cells) == {StringCellsOf(cells)[k].row : k \in DOMAIN StringCellsOf(cells)}
LastUsedRow(cells) ==
    IF \E a \in DOMAIN cells : cells[a] # None
    THEN Max({RowOf(a) : a \in {b \in DOMAIN cells : cells[b] # None}})
    ELSE 1
\* the rows r+1 .. min(r+19, last row of the used range) of the column whose
\* cell holds a non-zero number of one of the given types
NumberRowsBelow(cells, r, types) ==
    {q \in (r + 1)..Min({r + 19, LastUsedRow(cells)}) :
        /\ CellAt(q, 1) \in DOMAIN cells
        /\ cells[CellAt(q, 1)].t \in types
        /\ cells[CellAt(q, 1)].n # 0}
\* the table headers and the summary are those of the claim, a number being a
\* value of one of the given types
HeadersAsStated(cells, patterns, types) ==
    LET headerRows == {r \in TextRows(cells) :
                          Cardinality(NumberRowsBelow(cells, r, types)) >= 2}
        reported == patterns.table_headers
    IN  /\ Len(reported) = Cardinality(headerRows)
        /\ {reported[k].header_address : k \in DOMAIN reported}
               = {CellAt(r, 1) : r \in headerRows}
        /\ \A k \in DOMAIN reported :
               LET below == NumberRowsBelow(cells, RowOf(reported[k].header_address), types)
               IN  /\ reported[k].data_count = Cardinality(below)
                   /\ below # {}
                   /\ reported[k].data_range
                          = <<reported[k].header_address, CellAt(Max(below), 1)>>
        /\ patterns.summary.total_string_cells = Len(StringCellsOf(cells))

\* C21 as stated: analyze_label_value_patterns reports a text cell at row r as
\* a table header exactly when at least two cells of its column in rows
\* r+1 .. min(r+19, last row of the used range) hold a non-zero number; its
\* data_count is the number of those cells, its data_range runs from the
\* header cell to the last of them, and summary.total_string_cells is the
\* number of cells extract_string_cells returns.
C21_HeadersOfNumberColumns ==
    AnalysisAnswered =>
        HeadersAsStated(AnalysedCells, reply.ret, {"int", "float", "Decimal"})

\* What the analysis does keep of C21: all of it when a number is a value
\* that Range.Value hands over as an int or a float; a cell in currency
\* format, whose value arrives as a Decimal, is not counted.
C21_HeadersOfFloatColumns ==
    AnalysisAnswered => HeadersAsStated(AnalysedCells, reply.ret, {"int", "float"})
\* a header whose second number stands in the last row of the scan
C21_HeaderSeenAtScanEnd ==
    /\ AnalysisAnswered
    /\ \E k \in DOMAIN reply.ret.table_headers :
           /\ reply.ret.table_headers[k].header_address = "A1"
           /\ reply.ret.table_headers[k].data_count = 2
           /\ reply.ret.table_headers[k].data_range = <<"A1", "A20">>
====
